---- MODULE Spec2Model ----
(***************************************************************************)
(* MathWorkers: a pool of Web Workers coordinated by message passing.      *)
(* Model of the built library (src/unnamed/part_000): the load balancer,   *)
(* the Coordinator (main context) and the MathWorker (worker context).     *)
(* Numbers are modelled as integers; the inputs are small integers, for    *)
(* which the double arithmetic of the source is exact.                     *)
(***************************************************************************)
EXTENDS Integers, Sequences, FiniteSets, TLC

\* ------------------------------------------------------------------ bounds
MaxExtent == 9
MaxPool == 4
MaxWorkers == 2
MaxLen == 5
MaxCalls == 3
MaxCallerOps == 2
MaxOn == 2
MaxDim == 2
MaxTerms == 2

\* ------------------------------------------------- MW.util.loadBalance

\* (n / nw)|0 : the quotient truncated to a 32-bit integer.  For an extent
\* n >= 0 that is the floor of the quotient; every extent of the model lies in
\* the 32-bit range, where |0 does not wrap.
TruncDiv(n, nw) == n \div nw

\* mutant: the remainder is handed out from the last worker downwards, but the
\* start offsets are still computed as if the first workers held it
loadBalance_remLast(n, nw, id) ==
    LET div == TruncDiv(n, nw)
        rem == n % nw
    IN  IF id >= nw - rem
        THEN [ifrom |-> id * (div + 1), ito |-> id * (div + 1) + div + 1]
        ELSE [ifrom |-> id * div + rem, ito |-> id * div + rem + div]

\* mutant: the test for the extra element is off by one (id <= rem)
loadBalance_offByOne(n, nw, id) ==
    LET div == TruncDiv(n, nw)
        rem == n % nw
    IN  IF id <= rem
        THEN [ifrom |-> id * (div + 1), ito |-> id * (div + 1) + div + 1]
        ELSE [ifrom |-> id * div + rem, ito |-> id * div + rem + div]

\* loadBalance(n) with global.nWorkers = nw and global.myWorkerId = id
loadBalance(n, nw, id) ==
    LET div == TruncDiv(n, nw)
        rem == n % nw
    IN  IF id < rem
        THEN [ifrom |-> id * (div + 1), ito |-> id * (div + 1) + div + 1]
        ELSE [ifrom |-> id * div + rem, ito |-> id * div + rem + div]

\* ------------------------------------------------------ values and messages
Tags == {"tA", "tR"}
ReduceOps == {"sum", "product"}

\* the Vectors the worker scripts hold: 2, 1, 2, 1, ... of every length
Vectors == {[i \in 1..n |-> 1 + (i % 2)] : n \in 1..MaxLen}

\* a value of objectBuffer: {} ("object"), a Number, a Vector, or the string that
\* += / *= makes of a non-number ("garbage")
EmptyObject == [kind |-> "object", num |-> 0, arr |-> <<>>, rows |-> <<>>]
NumberBuffer(x) == [kind |-> "number", num |-> x, arr |-> <<>>, rows |-> <<>>]
VectorBuffer(a) == [kind |-> "vector", num |-> 0, arr |-> a, rows |-> <<>>]
Garbage == [kind |-> "garbage", num |-> 0, arr |-> <<>>, rows |-> <<>>]

\* a Matrix: its array, a list of rows (nrows = the number of rows, ncols = the
\* length of row 0)
MatrixBuffer(m) == [kind |-> "matrix", num |-> 0, arr |-> <<>>, rows |-> m]

\* an argument list handed to a handler: the args of trigger, or [] for none
ArgsBuffer(a) == [kind |-> "args", num |-> 0, arr |-> a, rows |-> <<>>]

\* the value of a var that was never assigned, or of a property a message lacks
Undefined == -1

\* the identity of the ArrayBuffer behind the Vector the caller holds; the copy
\* made for worker wk has identity wk + 1
CallerBuffer == 0

\* a posted message; the fields a handle does not carry stay at their default
BlankMessage ==
    [handle |-> "", tag |-> "", id |-> 0, nWorkers |-> 0, unrollLoops |-> FALSE,
     rebroadcast |-> FALSE, len |-> 0, offset |-> 0, vectorPart |-> <<>>,
     tot |-> 0, data |-> EmptyObject, vec |-> <<>>, args |-> ArgsBuffer(<<>>),
     buf |-> Undefined, vectorBuffer |-> <<>>, nrows |-> 0, ncols |-> 0,
     nrowsPart |-> 0, rows |-> <<>>]

RECURSIVE SeqSum(_)
SeqSum(s) == IF s = <<>> THEN 0 ELSE Head(s) + SeqSum(Tail(s))

RECURSIVE SeqProduct(_)
SeqProduct(s) == IF s = <<>> THEN 1 ELSE Head(s) * SeqProduct(Tail(s))

Max(a, b) == IF a >= b THEN a ELSE b

\* ------------------------------------------- worker side: partitioned methods

\* this.array[i], i counted from 0
At(v, i) == v[i + 1]

\* Vector.prototype.wkSum: the partial sum tot handed to reduceVectorSum
wkSumTot(v, nw, id, unroll) ==
    LET lb == loadBalance(Len(v), nw, id)
        ni3 == lb.ito - 3
        m == Max(0, ni3 - lb.ifrom)
        i0 == lb.ifrom + m
        unrolled == [j \in 1..m |->
                        At(v, lb.ifrom + j - 1) + At(v, lb.ifrom + j)
                        + At(v, lb.ifrom + j + 1) + At(v, lb.ifrom + j + 2)]
        tail == [k \in 1..(lb.ito - i0) |-> At(v, i0 + k - 1)]
        plain == [k \in 1..(lb.ito - lb.ifrom) |-> At(v, lb.ifrom + k - 1)]
    IN  IF unroll THEN SeqSum(unrolled) + SeqSum(tail) ELSE SeqSum(plain)

\* Vector.prototype.wkProduct: the partial product tot handed to reduceVectorProduct
wkProductTot(v, nw, id, unroll) ==
    LET lb == loadBalance(Len(v), nw, id)
        ni3 == lb.ito - 3
        m == Max(0, ni3 - lb.ifrom)
        i0 == lb.ifrom + m
        unrolled == [j \in 1..m |->
                        At(v, lb.ifrom + j - 1) * At(v, lb.ifrom + j)
                        * At(v, lb.ifrom + j + 1) * At(v, lb.ifrom + j + 2)]
        tail == [k \in 1..(lb.ito - i0) |-> At(v, i0 + k - 1)]
        plain == [k \in 1..(lb.ito - lb.ifrom) |-> At(v, lb.ifrom + k - 1)]
    IN  IF unroll THEN SeqProduct(unrolled) * SeqProduct(tail) ELSE SeqProduct(plain)

\* fn, the function the script hands to wkApply: the identity
fn(x) == x

\* Vector.prototype.wkApply(fn, ...): the partition buffer x handed to gatherVector.
\* x is a zeroed Float64Array of the partition's length; the writes go to
\* rising offsets, a write past the end of x is dropped.  The unrolled loop
\* writes four elements per pass and advances i by one.
wkApplyPart(v, nw, id, unroll) ==
    LET lb == loadBalance(Len(v), nw, id)
        L == lb.ito - lb.ifrom
        m == Max(0, lb.ito - 3 - lb.ifrom)
        i0 == lb.ifrom + m
        unrolledAt(p) ==
            IF p < 4 * m
            THEN fn(At(v, lb.ifrom + (p \div 4) + (p % 4)))
            ELSE IF i0 + (p - 4 * m) < lb.ito THEN fn(At(v, i0 + (p - 4 * m))) ELSE 0
    IN  [q \in 1..L |-> IF unroll THEN unrolledAt(q - 1) ELSE fn(At(v, lb.ifrom + q - 1))]

\* MathWorker.gatherVector: rebroadcast || false, the partition buffer is transferred
gatherVector(x, totalLength, offset, tag, rebroadcast, id) ==
    [BlankMessage EXCEPT !.handle = "_gatherVector", !.tag = tag, !.id = id,
                         !.rebroadcast = rebroadcast, !.len = totalLength,
                         !.offset = offset, !.vectorPart = x]

\* MathWorker.reduceVectorSum
reduceVectorSum(tot, tag, rebroadcast) ==
    [BlankMessage EXCEPT !.handle = "_vectorSum", !.tag = tag,
                         !.rebroadcast = rebroadcast, !.tot = tot]

\* MathWorker.reduceVectorProduct
reduceVectorProduct(tot, tag, rebroadcast) ==
    [BlankMessage EXCEPT !.handle = "_vectorProduct", !.tag = tag,
                         !.rebroadcast = rebroadcast, !.tot = tot]

\* --------------------------------------------- worker side: MW.Matrix

\* a Matrix is modelled by its array, the list of its rows
nrowsOf(M) == Len(M)
ncolsOf(M) == IF M = <<>> THEN 0 ELSE Len(M[1])

\* Matrix.prototype.isSquare
isSquare(M) == nrowsOf(M) = ncolsOf(M)

\* Matrix.prototype.transpose: a new Matrix of ncols x nrows
transpose(M) == [j \in 1..ncolsOf(M) |-> [i \in 1..nrowsOf(M) |-> M[i][j]]]

\* Matrix.prototype.transposeInPlace on a square Matrix: every pair above the
\* diagonal is swapped with its mirror image (on a Matrix that is not square
\* it throws an Error instead)
transposeInPlace(M) == [i \in 1..nrowsOf(M) |-> [j \in 1..ncolsOf(M) |-> M[j][i]]]

\* Matrix.prototype.copyColumn(j, vec): column j, counted from 0
copyColumn(M, j) == [i \in 1..nrowsOf(M) |-> M[i][j + 1]]

\* the inner product loop of wkDotMatrix over j < nj: the unrolled loop adds
\* four products per pass and advances j by four, the loop after it takes the
\* rest
RowDot(a, b, unroll) ==
    LET nj == Len(a)
        passes == IF nj - 3 > 0 THEN (nj - 3 + 3) \div 4 ELSE 0
        quads == [q \in 1..passes |->
                    a[4 * q - 3] * b[4 * q - 3] + a[4 * q - 2] * b[4 * q - 2]
                    + a[4 * q - 1] * b[4 * q - 1] + a[4 * q] * b[4 * q]]
        rest == [j \in 1..(nj - 4 * passes) |-> a[4 * passes + j] * b[4 * passes + j]]
        plain == [j \in 1..nj |-> a[j] * b[j]]
    IN  IF unroll THEN SeqSum(quads) + SeqSum(rest) ELSE SeqSum(plain)

\* MathWorker.gatherMatrixRows: ncols is read from mat[0] (on an empty mat that
\* read throws a TypeError instead)
gatherMatrixRows(mat, totalRows, offset, tag, rebroadcast, id) ==
    [BlankMessage EXCEPT !.handle = "_gatherMatrixRows", !.tag = tag, !.id = id,
                         !.rebroadcast = rebroadcast, !.nrows = totalRows,
                         !.ncols = ncolsOf(mat), !.nrowsPart = Len(mat),
                         !.offset = offset, !.rows = mat]

\* MathWorker.gatherMatrixColumns: mat is the transposed partition
gatherMatrixColumns(mat, totalRows, totalCols, offset, tag, rebroadcast, id) ==
    [BlankMessage EXCEPT !.handle = "_gatherMatrixColumns", !.tag = tag, !.id = id,
                         !.rebroadcast = rebroadcast, !.nrows = totalRows,
                         !.ncols = totalCols, !.nrowsPart = Len(mat),
                         !.offset = offset, !.rows = mat]

\* what a call of the worker script comes to: the exception it throws ("" if
\* it returns), the messages it has posted, and the caller's Matrix B when the
\* call is over (<<>> for a call without B)
WkOutcome(thrown, msgs, B) == [thrown |-> thrown, msgs |-> msgs, B |-> B]

\* MathWorker.sendDataToCoordinator(data, tag)
sendDataToCoordinator(data, tag, id) ==
    WkOutcome("", << [BlankMessage EXCEPT !.handle = "_sendData", !.id = id,
                                          !.tag = tag, !.data = data] >>, <<>>)

\* MathWorker.sendVectorToCoordinator(vec, tag): only id 0 does the sending
sendVectorToCoordinator(v, tag, id) ==
    WkOutcome("", IF id = 0
                  THEN << [BlankMessage EXCEPT !.handle = "_vectorSendToCoordinator",
                                               !.tag = tag, !.vectorBuffer = v] >>
                  ELSE <<>>, <<>>)

\* the identifier id that sendMatrixToCoordinator tests: no declaration of it is
\* in scope of the MathWorker constructor
IdInScope == FALSE

\* MathWorker.sendMatrixToCoordinator(mat, tag): reading the undeclared id
\* throws a ReferenceError
sendMatrixToCoordinator(mat, tag, id) ==
    IF ~IdInScope
    THEN WkOutcome("ReferenceError", <<>>, <<>>)
    ELSE WkOutcome("", IF id = 0
                       THEN << [BlankMessage EXCEPT
                                  !.handle = "_matrixSendToCoordinator", !.tag = tag,
                                  !.nrows = nrowsOf(mat), !.rows = mat] >>
                       ELSE <<>>, <<>>)

\* ------------------------------------- operands and the checks of MW.util

\* an operand of a wk* call by what the checks look at: its type and, for a
\* Vector, its length n; for a Matrix, nrows n and ncols m
Val(type, n, m) == [type |-> type, n |-> n, m |-> m]
NullVal == Val("null", 0, 0)
NumberVal == Val("number", 0, 0)
FunctionVal == Val("function", 0, 0)
StringVal == Val("string", 0, 0)
VectorVal(n) == Val("Vector", n, 0)
MatrixVal(r, c) == Val("Matrix", r, c)

\* the operands the scripts pass: null (or undefined), a non-zero number, a
\* function, Vectors and Matrices of every small shape
Scalars == {NullVal, NumberVal, FunctionVal}
VectorVals == {VectorVal(n) : n \in 1..MaxDim}
MatrixVals == {MatrixVal(r, c) : r \in 1..MaxDim, c \in 1..MaxDim}
Shaped == {NullVal} \cup VectorVals \cup MatrixVals
TagVals == {NullVal, StringVal}

\* the first exception of a run of checks ("" if none throws)
RECURSIVE FirstThrown(_)
FirstThrown(errs) ==
    IF errs = <<>> THEN ""
    ELSE IF Head(errs) # "" THEN Head(errs) ELSE FirstThrown(Tail(errs))

checkNullOrUndefined(x) == IF x.type = "null" THEN "TypeError" ELSE ""

checkNumber(x) ==
    FirstThrown(<<checkNullOrUndefined(x), IF x.type # "number" THEN "TypeError" ELSE "">>)

checkFunction(x) ==
    FirstThrown(<<checkNullOrUndefined(x), IF x.type # "function" THEN "TypeError" ELSE "">>)

checkVector(v) ==
    FirstThrown(<<checkNullOrUndefined(v), IF v.type # "Vector" THEN "TypeError" ELSE "">>)

checkMatrix(A) ==
    FirstThrown(<<checkNullOrUndefined(A), IF A.type # "Matrix" THEN "TypeError" ELSE "">>)

checkVectors(v, w) ==
    FirstThrown(<<checkVector(v), checkVector(w), IF v.n # w.n THEN "Error" ELSE "">>)

\* v.length !== A.nrows
checkVectorMatrix(v, A) ==
    FirstThrown(<<checkVector(v), checkMatrix(A), IF v.n # A.n THEN "Error" ELSE "">>)

\* v.length !== A.ncols
checkMatrixVector(A, v) ==
    FirstThrown(<<checkMatrix(A), checkVector(v), IF v.n # A.m THEN "Error" ELSE "">>)

\* beta && y: null and undefined are falsy, every other operand of the model
\* (a non-zero number, a function, an object) is truthy
Truthy(x) == x.type # "null"

\* a worker-partitioned call: the method, its receiver self (a Vector, for the
\* methods of MW.Vector.prototype) and its arguments.  wkPlus takes its w in
\* x; wkVectorLinearCombination takes vectors = [x, y] and
\* coefficients = [alpha, beta]
WkCall(op, self, alpha, fnArg, A, x, beta, y, tag) ==
    [op |-> op, self |-> self, alpha |-> alpha, fn |-> fnArg, A |-> A, x |-> x,
     beta |-> beta, y |-> y, tag |-> tag]

NoCall == WkCall("none", NullVal, NullVal, NullVal, NullVal, NullVal, NullVal, NullVal, NullVal)
NoResult == [done |-> FALSE, thrown |-> "", posted |-> 0]

\* the calls the worker script may make
WkCalls ==
    {WkCall("wkSum", s, NullVal, NullVal, NullVal, NullVal, NullVal, NullVal, t) :
        s \in VectorVals, t \in TagVals}
    \cup {WkCall("wkPlus", s, NullVal, NullVal, NullVal, x, NullVal, NullVal, t) :
        s \in VectorVals, x \in Shaped, t \in TagVals}
    \cup {WkCall("wkScale", s, a, NullVal, NullVal, NullVal, NullVal, NullVal, t) :
        s \in VectorVals, a \in Scalars, t \in TagVals}
    \cup {WkCall("wkApply", s, NullVal, f, NullVal, NullVal, NullVal, NullVal, t) :
        s \in VectorVals, f \in Scalars, t \in TagVals}
    \cup {WkCall("wkDotMatrix", s, NullVal, NullVal, A, NullVal, NullVal, NullVal, t) :
        s \in VectorVals, A \in Shaped, t \in TagVals}
    \cup {WkCall("wkVectorLinearCombination", NullVal, a, NullVal, NullVal, x, b, y, t) :
        a \in Scalars, x \in Shaped, b \in Scalars, y \in Shaped, t \in TagVals}
    \cup {WkCall("wkMatrixVectorPlus", NullVal, a, NullVal, A, x, b, y, t) :
        a \in Scalars, A \in Shaped, x \in Shaped, b \in Scalars, y \in Shaped,
        t \in TagVals}

\* what the call throws before it reaches its gather / reduce call ("" if it
\* reaches it): the checks in the order the method makes them.  The loops
\* between the checks and the gather / reduce call throw nothing: in
\* wkMatrixVectorPlus this.ncols is undefined, so the inner loop that reads the
\* undeclared v never runs, and y[i] is undefined, not an error.
WkThrows(c) ==
    CASE c.op = "wkSum" -> checkNullOrUndefined(c.tag)
      [] c.op = "wkPlus" ->
            FirstThrown(<<checkVectors(c.self, c.x), checkNullOrUndefined(c.tag)>>)
      [] c.op = "wkScale" ->
            FirstThrown(<<checkNumber(c.alpha), checkNullOrUndefined(c.tag)>>)
      [] c.op = "wkApply" ->
            FirstThrown(<<checkFunction(c.fn), checkNullOrUndefined(c.tag)>>)
      [] c.op = "wkDotMatrix" ->
            FirstThrown(<<checkVectorMatrix(c.self, c.A), checkNullOrUndefined(c.tag)>>)
      [] c.op = "wkVectorLinearCombination" ->
            FirstThrown(<<checkNumber(c.alpha), checkVector(c.x),
                          checkNullOrUndefined(c.tag), checkNumber(c.beta),
                          checkVectors(c.x, c.y)>>)
      [] c.op = "wkMatrixVectorPlus" ->
            FirstThrown(<<checkNumber(c.alpha), checkMatrixVector(c.A, c.x),
                          checkNullOrUndefined(c.tag)>>
                        \o (IF Truthy(c.beta) /\ Truthy(c.y)
                            THEN <<checkNumber(c.beta), checkVectors(c.x, c.y)>>
                            ELSE <<>>))
      [] OTHER -> ""

\* ------------------------------ worker side: the calls that gather a Matrix

checkMatrices(A, B) ==
    FirstThrown(<<checkMatrix(A), checkMatrix(B),
                  IF ~(A.n = B.n /\ A.m = B.m) THEN "Error" ELSE "">>)

\* A.ncols !== B.nrows
checkMatrixMatrix(A, B) ==
    FirstThrown(<<checkMatrix(A), checkMatrix(B), IF A.m # B.n THEN "Error" ELSE "">>)

\* what the checks see of a Vector (v) or of a Matrix (M)
Desc(v, M) == IF M = <<>> THEN VectorVal(Len(v)) ELSE MatrixVal(nrowsOf(M), ncolsOf(M))

\* an operand that is not passed
NotPassed == <<>>

\* the value of an arithmetic expression with an undefined operand
NaN == -2

\* Matrix.prototype.wkDotMatrix(B, tag, rebroadcast), this = A: the columns
\* ifrom..ito of C = A.B, as the rows of a transposed partition
wkDotMatrix(A, B, tag, rebroadcast, nw, id, unroll) ==
    LET err == FirstThrown(<<checkMatrixMatrix(Desc(<<>>, A), Desc(<<>>, B)),
                             checkNullOrUndefined(StringVal)>>)
        lb == loadBalance(ncolsOf(B), nw, id)
        nk == lb.ito - lb.ifrom
        C == [k \in 1..nk |->
                [i \in 1..nrowsOf(A) |->
                    RowDot(A[i], copyColumn(B, lb.ifrom + k - 1), unroll)]]
    IN  IF err # "" THEN WkOutcome(err, <<>>, B)
        ELSE WkOutcome("", <<gatherMatrixColumns(C, nrowsOf(A), ncolsOf(B), lb.ifrom,
                                                 tag, rebroadcast, id)>>, B)

\* Matrix.prototype.wkDotVector(v, tag, rebroadcast), this = A: the elements
\* ifrom..ito of A.v, the range taken over A.nrows; the total length handed to
\* gatherVector is v.length
wkDotVector(A, v, tag, rebroadcast, nw, id, unroll) ==
    LET err == FirstThrown(<<checkMatrixVector(Desc(<<>>, A), Desc(v, <<>>)),
                             checkNullOrUndefined(StringVal)>>)
        lb == loadBalance(nrowsOf(A), nw, id)
        w == [r \in 1..(lb.ito - lb.ifrom) |-> RowDot(A[lb.ifrom + r], v, unroll)]
    IN  IF err # "" THEN WkOutcome(err, <<>>, <<>>)
        ELSE WkOutcome("", <<gatherVector(w, Len(v), lb.ifrom, tag, rebroadcast, id)>>,
                       <<>>)

\* Vector.prototype.wkDotMatrix(A, tag, rebroadcast), this = v: the elements
\* ifrom..ito of v.A, the range taken over A.ncols; the total length handed to
\* gatherVector is this.length
Vector_wkDotMatrix(v, A, tag, rebroadcast, nw, id, unroll) ==
    LET err == FirstThrown(<<checkVectorMatrix(Desc(v, <<>>), Desc(<<>>, A)),
                             checkNullOrUndefined(StringVal)>>)
        lb == loadBalance(ncolsOf(A), nw, id)
        w == [c \in 1..(lb.ito - lb.ifrom) |->
                RowDot(v, copyColumn(A, lb.ifrom + c - 1), unroll)]
    IN  IF err # "" THEN WkOutcome(err, <<>>, <<>>)
        ELSE WkOutcome("", <<gatherVector(w, Len(v), lb.ifrom, tag, rebroadcast, id)>>,
                       <<>>)

\* the element of vec that is read for the write to x[p] (p counted from 0) in
\* the loops of wkVectorLinearCombination: the unrolled loop makes four writes
\* per pass, from vec.array[i] .. vec.array[i+3], and advances i by one
LinCombPick(v, lb, unroll, p) ==
    LET m == Max(0, lb.ito - 3 - lb.ifrom)
    IN  IF ~unroll THEN At(v, lb.ifrom + p)
        ELSE IF p < 4 * m THEN At(v, lb.ifrom + (p \div 4) + (p % 4))
             ELSE At(v, lb.ifrom + m + (p - 4 * m))

\* the checks of the loop over the remaining operands, in order
RECURSIVE LinCombChecksV(_, _)
LinCombChecksV(vectors, a) ==
    IF a > Len(vectors) THEN <<>>
    ELSE <<checkNumber(NumberVal), checkVectors(Desc(vectors[a - 1], <<>>), Desc(vectors[a], <<>>))>>
         \o LinCombChecksV(vectors, a + 1)

\* BatchOperation.wkVectorLinearCombination(vectors, coefficients, tag, rebroadcast):
\* x accumulates every term over the worker's range; one gatherVector at the end
wkVectorLinearCombination(vectors, coefficients, tag, rebroadcast, nw, id, unroll) ==
    LET err == FirstThrown(<<checkNumber(NumberVal), checkVector(Desc(vectors[1], <<>>)),
                             checkNullOrUndefined(StringVal)>>
                           \o LinCombChecksV(vectors, 2))
        lb == loadBalance(Len(vectors[1]), nw, id)
        x == [q \in 1..(lb.ito - lb.ifrom) |->
                SeqSum([a \in 1..Len(vectors) |->
                          coefficients[a] * LinCombPick(vectors[a], lb, unroll, q - 1)])]
    IN  IF err # "" THEN WkOutcome(err, <<>>, <<>>)
        ELSE WkOutcome("", <<gatherVector(x, Len(vectors[Len(vectors)]), lb.ifrom, tag,
                                          rebroadcast, id)>>, <<>>)

RECURSIVE LinCombChecksM(_, _)
LinCombChecksM(matrices, a) ==
    IF a > Len(matrices) THEN <<>>
    ELSE <<checkNumber(NumberVal),
           checkMatrices(Desc(<<>>, matrices[a - 1]), Desc(<<>>, matrices[a]))>>
         \o LinCombChecksM(matrices, a + 1)

\* BatchOperation.wkMatrixLinearCombination(matrices, coefficients, tag, rebroadcast):
\* M accumulates every term over the worker's rows; one gatherMatrixRows at the end
wkMatrixLinearCombination(matrices, coefficients, tag, rebroadcast, nw, id) ==
    LET err == FirstThrown(<<checkNumber(NumberVal), checkMatrix(Desc(<<>>, matrices[1])),
                             checkNullOrUndefined(StringVal)>>
                           \o LinCombChecksM(matrices, 2))
        lb == loadBalance(nrowsOf(matrices[1]), nw, id)
        M == [r \in 1..(lb.ito - lb.ifrom) |->
                [j \in 1..ncolsOf(matrices[1]) |->
                    SeqSum([a \in 1..Len(matrices) |->
                              coefficients[a]
                              * matrices[a][lb.ifrom + r][j]])]]
        thrown == FirstThrown(<<err, (IF M = <<>> THEN "TypeError" ELSE "")>>)
    IN  IF thrown # "" THEN WkOutcome(thrown, <<>>, <<>>)
        ELSE WkOutcome("", <<gatherMatrixRows(M, nrowsOf(matrices[Len(matrices)]),
                                              lb.ifrom, tag, rebroadcast, id)>>, <<>>)

\* BatchOperation.wkMatrixVectorPlus(alpha, A, x, tag, rebroadcast, beta, y).
\* The inner loop runs for j < this.ncols; this is MW.BatchOperation, which has
\* no ncols, so the test is false at once, tot stays 0 and the undeclared v is
\* never read.  y[i] reads an index of the Vector object, not
\* of y.array: it is undefined, and beta * undefined is NaN.  The total length
\* handed to gatherVector is x.length.
wkMatrixVectorPlus(alpha, A, x, tag, rebroadcast, beta, y, nw, id) ==
    LET both == beta # 0 /\ y # NotPassed
        err == FirstThrown(<<checkNumber(NumberVal), checkMatrixVector(Desc(<<>>, A), Desc(x, <<>>)),
                             checkNullOrUndefined(StringVal)>>
                           \o (IF both
                               THEN <<checkNumber(NumberVal),
                                      checkVectors(Desc(x, <<>>), Desc(y, <<>>))>>
                               ELSE <<>>))
        lb == loadBalance(nrowsOf(A), nw, id)
        tot == 0
        z == [r \in 1..(lb.ito - lb.ifrom) |-> IF both THEN NaN ELSE alpha * tot]
    IN  IF err # "" THEN WkOutcome(err, <<>>, <<>>)
        ELSE WkOutcome("", <<gatherVector(z, Len(x), lb.ifrom, tag, rebroadcast, id)>>,
                       <<>>)

\* BatchOperation.wkMatrixMatrixPlus(alpha, A, B, tag, rebroadcast, beta, C):
\* B is transposed (in place if square), the rows ifrom..ito of
\* alpha * A.B + beta * C are computed, B is transposed in place again, and one
\* gatherMatrixRows ends the call.  The restoring step is guarded by
\* if (B.isSquare), the method itself and not its result: it is taken for
\* every B, and transposeInPlace throws an Error on a B that is not square.
wkMatrixMatrixPlus(alpha, A, B, tag, rebroadcast, beta, C, nw, id) ==
    LET err1 == FirstThrown(<<checkNumber(NumberVal),
                              checkMatrixMatrix(Desc(<<>>, A), Desc(<<>>, B)),
                              checkNullOrUndefined(StringVal)>>)
        Bt == IF isSquare(B) THEN transposeInPlace(B) ELSE transpose(B)
        B1 == IF isSquare(B) THEN Bt ELSE B
        both == beta # 0 /\ C # NotPassed
        err2 == IF both
                THEN FirstThrown(<<checkNumber(NumberVal), checkMatrix(Desc(<<>>, C)),
                                   IF ~(nrowsOf(A) = nrowsOf(C) /\ ncolsOf(B) = ncolsOf(C))
                                   THEN "Error" ELSE "">>)
                ELSE ""
        lb == loadBalance(nrowsOf(A), nw, id)
        D == [r \in 1..(lb.ito - lb.ifrom) |->
                [j \in 1..ncolsOf(B) |->
                    alpha * SeqSum([k \in 1..ncolsOf(A) |->
                                      A[lb.ifrom + r][k] * Bt[j][k]])
                    + (IF both THEN beta * C[lb.ifrom + r][j] ELSE 0)]]
        err3 == IF isSquare(B1) THEN "" ELSE "Error"
        B2 == IF err3 = "" THEN transposeInPlace(B1) ELSE B1
        err4 == (IF D = <<>> THEN "TypeError" ELSE "")
    IN  IF err1 # "" THEN WkOutcome(err1, <<>>, B)
        ELSE IF err2 # "" THEN WkOutcome(err2, <<>>, B1)
        ELSE IF err3 # "" THEN WkOutcome(err3, <<>>, B1)
        ELSE IF err4 # "" THEN WkOutcome(err4, <<>>, B2)
        ELSE WkOutcome("", <<gatherMatrixRows(D, nrowsOf(A), lb.ifrom, tag, rebroadcast,
                                              id)>>, B2)

\* ---------------------------------------- the calls of the worker scripts

\* the Vectors and Matrices the worker scripts build: the a-th operand of a
\* shape, the same in every worker
ScriptVector(a, n) == [i \in 1..n |-> 1 + ((a * i + a) % 3)]
ScriptMatrix(a, r, c) == [i \in 1..r |-> [j \in 1..c |-> 1 + ((a * i + 2 * j + a) % 4)]]

\* a call of the worker script with its operands; rebroadcast is rbOf of its
\* tag, the coefficient of the a-th term of a linear combination is a + 1
ScriptOp(op, alpha, A, B, beta, C, x, y, vectors, matrices) ==
    [op |-> op, tag |-> "tA", alpha |-> alpha, A |-> A, B |-> B, beta |-> beta,
     C |-> C, x |-> x, y |-> y, vectors |-> vectors, matrices |-> matrices,
     coefficients |-> [a \in 1..Max(Len(vectors), Len(matrices)) |-> a + 1]]

NoScriptOp ==
    ScriptOp("none", 0, NotPassed, NotPassed, 0, NotPassed, NotPassed, NotPassed, <<>>, <<>>)

\* the calls a worker script may make, with operands of compatible shapes
\* (the C of wkMatrixMatrixPlus has the rows of A and any number of columns);
\* beta and the operand that goes with it are passed (beta = 3) or not
ScriptOps ==
    {ScriptOp("sendDataToCoordinator", 0, NotPassed, NotPassed, 0, NotPassed, NotPassed,
              NotPassed, <<>>, <<>>)}
    \cup {ScriptOp("sendVectorToCoordinator", 0, NotPassed, NotPassed, 0, NotPassed,
                   ScriptVector(1, n), NotPassed, <<>>, <<>>) : n \in 1..MaxDim}
    \cup {ScriptOp("sendMatrixToCoordinator", 0, ScriptMatrix(1, r, c), NotPassed, 0,
                   NotPassed, NotPassed, NotPassed, <<>>, <<>>) :
            r \in 1..MaxDim, c \in 1..MaxDim}
    \cup {ScriptOp("wkDotMatrix", 0, ScriptMatrix(1, r, m), ScriptMatrix(3, m, c), 0,
                   NotPassed, NotPassed, NotPassed, <<>>, <<>>) :
            r \in 1..MaxDim, m \in 1..MaxDim, c \in 1..MaxDim}
    \cup {ScriptOp("wkDotVector", 0, ScriptMatrix(1, r, m), NotPassed, 0, NotPassed,
                   ScriptVector(1, m), NotPassed, <<>>, <<>>) :
            r \in 1..MaxDim, m \in 1..MaxDim}
    \cup {ScriptOp("Vector.wkDotMatrix", 0, ScriptMatrix(1, r, m), NotPassed, 0, NotPassed,
                   ScriptVector(1, r), NotPassed, <<>>, <<>>) :
            r \in 1..MaxDim, m \in 1..MaxDim}
    \cup {ScriptOp("wkMatrixMatrixPlus", 2, ScriptMatrix(1, r, m), ScriptMatrix(3, m, c),
                   b, IF b = 0 THEN NotPassed ELSE ScriptMatrix(2, r, cc), NotPassed,
                   NotPassed, <<>>, <<>>) :
            r \in 1..MaxDim, m \in 1..MaxDim, c \in 1..MaxDim, cc \in 1..MaxDim,
            b \in {0, 3}}
    \cup {ScriptOp("wkMatrixVectorPlus", 2, ScriptMatrix(1, r, m), NotPassed, b, NotPassed,
                   ScriptVector(1, m), IF b = 0 THEN NotPassed ELSE ScriptVector(2, r),
                   <<>>, <<>>) :
            r \in 1..MaxDim, m \in 1..MaxDim, b \in {0, 3}}
    \cup {ScriptOp("wkVectorLinearCombination", 0, NotPassed, NotPassed, 0, NotPassed,
                   NotPassed, NotPassed, [a \in 1..k |-> ScriptVector(a, n)], <<>>) :
            k \in 1..MaxTerms, n \in 1..MaxLen}
    \cup {ScriptOp("wkMatrixLinearCombination", 0, NotPassed, NotPassed, 0, NotPassed,
                   NotPassed, NotPassed, <<>>, [a \in 1..k |-> ScriptMatrix(a, r, c)]) :
            k \in 1..MaxTerms, r \in 1..MaxDim, c \in 1..MaxDim}

\* the operands of the call o whose ArrayBuffer the call has handed over when it
\* returns: sendVectorToCoordinator transfers vec.array.buffer, the buffer of
\* its operand, from worker 0; a gather transfers the buffer of the array it
\* is given, and every wk* method gives it the array it has allocated itself
\* for its partition (new Float64Array)
Detached_operand(o, id) == IF o.x # NotPassed /\ id = 0 THEN {"x"} ELSE {}
Detached(o, id) ==
    IF o.op = "sendVectorToCoordinator" /\ id = 0 THEN {"x"} ELSE {}

\* the data the script of worker w passes to sendDataToCoordinator
DataOf(w) == NumberBuffer(w + 5)

\* --------------------------------------------------------------- the state
VARIABLES
    \* the runtime: whether typeof(Worker) is defined in the main context
    workerSupport,
    \* main context: global.nWorkers, global.workerPool (the ids of the workers
    \* spawned), global.unrollLoops, and what new MW.Coordinator threw
    nWorkers, workerPool, unrollLoops, thrown,
    \* the Coordinator's closure: the workers whose onmessage is the Coordinator's
    \* handler, whether the handle* functions have been assigned, and its variables
    onmessage, handlersAssigned, nWorkersReported, objectBuffer, ready,
    \* the Coordinator's messageDataBuffer: the entry of every index it has
    messageDataBuffer,
    \* the two directions of every worker's channel (each keeps send order)
    toWorker, toCoord,
    \* worker contexts: global.myWorkerId, global.nWorkers, global.unrollLoops,
    \* whether _init has been handled, and the MathWorker's objectBuffer
    myWorkerId, wkNWorkers, wkUnrollLoops, wkInited, wkObjectBuffer,
    \* the worker script: the Vector every worker holds, the reduction issued
    \* under tag "tR", the rebroadcast flag passed with each tag, and the calls
    \* of on the script makes as it loads
    vec, reduceOp, rbOf, scriptOn,
    \* the call with its operands that the script of every worker makes once,
    \* and what came of it in every worker
    scriptOp, opResult,
    \* observation: operations issued by the workers so far, reports sent and reports arrived in
    \* the main context per worker and tag, events emitted per name, broadcast
    \* messages posted per worker and tag, rounds closed per tag and the
    \* objectBuffer at the last close of each tag
    calls, sent, arrived, emitted, posted, closes, closedValue,
    \* the Coordinator's EventEmitter: the callback registered per event name,
    \* the callbacks it has invoked, the invalid handles it has logged
    events, called, logged,
    \* the main script: the calls it has made on the object that new
    \* MW.Coordinator gave it, and the Vector it holds
    callerCalls, callerVec,
    \* the MathWorker of every worker: its triggers, the registrations its
    \* script has made with on, the callbacks handleTrigger has invoked and the
    \* errors it has logged
    triggers, regs, invoked, wkLogged,
    \* a worker-partitioned call with its operands, and what came of it
    wkCall, wkResult,
    \* the planner applied to every id of a pool
    lbExtent, lbWorkers, lbRanges,
    \* the Coordinator of src/main/core/coordinator.js: this.nWorkers,
    \* this.workerPool (the ids of its workers, in order), how often every worker
    \* has been disconnected, the messages posted to every worker, and the calls
    \* the main script has made on the Coordinator
    thisNWorkers, thisWorkerPool, disconnected, inbox, poolCalls

envVars == <<workerSupport, workerPool, thrown>>
coordVars == <<envVars, nWorkers, unrollLoops, onmessage, handlersAssigned,
               nWorkersReported, objectBuffer, ready, messageDataBuffer>>
mainVars == <<events, called, logged, callerCalls, callerVec>>
regVars == <<triggers, regs, invoked, wkLogged>>
wkVars == <<wkCall, wkResult>>
workerVars == <<myWorkerId, wkNWorkers, wkUnrollLoops, wkInited, wkObjectBuffer>>
scriptVars == <<vec, reduceOp, rbOf, scriptOn, scriptOp>>
obsVars == <<calls, sent, arrived, emitted, posted, closes, closedValue>>
lbVars == <<lbExtent, lbWorkers, lbRanges>>
sysVars == <<coordVars, workerVars, scriptVars, obsVars, mainVars, regVars, wkVars,
            opResult,
            toWorker, toCoord>>
poolVars == <<thisNWorkers, thisWorkerPool, disconnected, inbox, poolCalls>>
vars == <<sysVars, lbVars, poolVars>>

Workers == workerPool
EventNames == Tags \cup {"_ready"}

\* callbacks are told apart by a number; no callback is 0
NoHandler == 0

\* the k-th callback a script passes to on: callbacks 2, 1, 2, 1, ...
HandlerAt(k) == 1 + (k % 2)

\* the runs of on(tag, callback) calls a worker script may make as it loads
ScriptsOn ==
    UNION {{[i \in 1..k |-> [tag |-> f[i], h |-> HandlerAt(i)]] : f \in [1..k -> Tags]} :
              k \in 0..MaxOn}

\* --------------------------------------------- MW.Coordinator: construction

\* mutant: messageDataBuffer is created as an array
MessageDataBufferHasPush_array == TRUE

\* var messageDataBuffer = {}: a plain object, which has no push method
MessageDataBufferHasPush == FALSE

\* The loop that registers onmessageHandler on every worker of the pool.  Its
\* first pass sets worker 0's onmessage and then calls messageDataBuffer.push;
\* on a plain object that call throws a TypeError, which ends the constructor:
\* no other worker gets the handler, and the statements after the loop
\* (nWorkersReported = 0, the assignments of the handle* functions) never run.
RegistrationLoop(n) ==
    IF MessageDataBufferHasPush
    THEN [registered |-> 0..(n - 1), completed |-> TRUE]
    ELSE [registered |-> {0}, completed |-> FALSE]

\* mutant: the check for Worker is left out
checkWebWorkerSupport_skipped == "none"

\* MW.util.checkWebWorkerSupport: what it throws ("none" if it returns)
checkWebWorkerSupport == IF workerSupport THEN "none" ELSE "Error"

\* mutant: every _init carries the defaults, id 0 and a worker count of 1
createPool_defaults(n, unroll) ==
    [w \in 0..(n - 1) |->
        << [BlankMessage EXCEPT !.handle = "_init", !.id = 0, !.nWorkers = 1,
                                !.unrollLoops = unroll] >>]

\* global.createPool: worker i is spawned and posted _init with its id, the
\* worker count and the main context's unrollLoops
createPool(n, unroll) ==
    [w \in 0..(n - 1) |->
        << [BlankMessage EXCEPT !.handle = "_init", !.id = w, !.nWorkers = n,
                                !.unrollLoops = unroll] >>]

\* the worker contexts as loaded: the defaults of the library's globals
WorkerDefaults ==
    /\ myWorkerId = [w \in Workers |-> 0]
    /\ wkNWorkers = [w \in Workers |-> 1]
    /\ wkUnrollLoops = [w \in Workers |-> FALSE]
    /\ wkInited = [w \in Workers |-> FALSE]
    /\ wkObjectBuffer = [w \in Workers |-> EmptyObject]

\* no Coordinator of src/main/core/coordinator.js has been constructed
NoPool ==
    /\ thisNWorkers = 0
    /\ thisWorkerPool = <<>>
    /\ disconnected = [w \in {} |-> 0]
    /\ inbox = [w \in {} |-> <<>>]
    /\ poolCalls = <<>>

\* no worker script has made its call
NoScriptCalls ==
    opResult = [w \in Workers |->
                   [done |-> FALSE, thrown |-> "", posted |-> 0, B |-> NotPassed]]

\* no script has registered a callback, no callback has run, nothing is logged
NothingRegistered ==
    /\ triggers = [w \in Workers |-> [t \in Tags |-> NoHandler]]
    /\ regs = [w \in Workers |-> <<>>]
    /\ invoked = [w \in Workers |-> <<>>]
    /\ wkLogged = [w \in Workers |-> 0]
    /\ events = [e \in EventNames |-> NoHandler]
    /\ called = <<>>
    /\ logged = 0

\* the main script holds a Vector and has called nothing yet
CallerIdle ==
    /\ callerCalls = <<>>
    /\ callerVec = [arr |-> <<1, 2>>, buf |-> CallerBuffer, detached |-> FALSE]

NothingObserved ==
    /\ calls = 0
    /\ sent = [w \in Workers |-> [t \in Tags |-> 0]]
    /\ arrived = [w \in Workers |-> [t \in Tags |-> 0]]
    /\ emitted = [e \in EventNames |-> 0]
    /\ posted = [w \in Workers |-> [t \in Tags |-> 0]]
    /\ closes = [t \in Tags |-> 0]
    /\ closedValue = [t \in Tags |-> EmptyObject]

\* MW.setUnrollLoops(unroll), then new MW.Coordinator(n, script)
Coordinator(n, unroll) ==
    /\ unrollLoops = unroll
    /\ objectBuffer = EmptyObject
    /\ ready = FALSE
    /\ IF checkWebWorkerSupport = "Error"
       THEN \* createPool throws before its loop: no worker is spawned, the
            \* globals keep their defaults (workerPool = [], nWorkers = 1)
            /\ thrown = "Error"
            /\ nWorkers = 1
            /\ workerPool = {}
            /\ toWorker = [w \in {} |-> <<>>]
            /\ toCoord = [w \in {} |-> <<>>]
            /\ onmessage = {}
            /\ handlersAssigned = FALSE
            /\ nWorkersReported = Undefined
            /\ messageDataBuffer = [i \in {} |-> EmptyObject]
       ELSE /\ thrown = IF RegistrationLoop(n).completed THEN "none" ELSE "TypeError"
            /\ nWorkers = n
            /\ workerPool = 0..(n - 1)
            /\ toWorker = createPool(n, unroll)
            /\ toCoord = [w \in 0..(n - 1) |-> <<>>]
            /\ onmessage = RegistrationLoop(n).registered
            /\ handlersAssigned = RegistrationLoop(n).completed
            /\ nWorkersReported = IF RegistrationLoop(n).completed THEN 0 ELSE Undefined
            \* one {} is pushed for every worker the loop gets to
            /\ messageDataBuffer = IF RegistrationLoop(n).completed
                                   THEN [i \in 0..(n - 1) |-> EmptyObject]
                                   ELSE [i \in {} |-> EmptyObject]

Init ==
    /\ workerSupport = TRUE
    /\ \E n \in 1..MaxWorkers, unroll \in BOOLEAN : Coordinator(n, unroll)
    /\ WorkerDefaults
    /\ vec \in Vectors
    /\ reduceOp \in ReduceOps
    /\ rbOf \in [Tags -> BOOLEAN]
    /\ scriptOn = <<>>
    /\ NothingObserved
    /\ NothingRegistered
    /\ CallerIdle
    /\ scriptOp = NoScriptOp
    /\ NoScriptCalls
    /\ NoPool
    /\ wkCall = NoCall
    /\ wkResult = NoResult
    /\ lbExtent = 1 /\ lbWorkers = 1 /\ lbRanges = <<>>

\* ------------------------------------------------- MW.MathWorker (worker w)

\* the handles of the switch in self.onmessage
MathWorkerHandles ==
    {"_init", "_trigger", "_broadcastData", "_broadcastVector", "_broadcastMatrix"}

\* obj, the second argument of handleTrigger, when the call passes none
NoObject == [kind |-> "undefined", num |-> 0, arr |-> <<>>, rows |-> <<>>]

\* var args = data.data || obj || [].  Only a _broadcastData message has a data
\* property (a _trigger message carries its arguments as args); the number 0 is
\* falsy.
HandlerArgs(data, obj) ==
    IF data.handle = "_broadcastData" /\ ~(data.data.kind = "number" /\ data.data.num = 0)
    THEN data.data
    ELSE IF obj # NoObject THEN obj ELSE ArgsBuffer(<<>>)

\* the message a worker posts when its script issues the operation of tag t:
\* vec.wkApply(identity, "tA", rb), vec.wkSum("tR", rb) or vec.wkProduct("tR", rb)
Report(w, t) ==
    LET nw == wkNWorkers[w]
        id == myWorkerId[w]
        un == wkUnrollLoops[w]
    IN  IF t = "tA"
        THEN gatherVector(wkApplyPart(vec, nw, id, un), Len(vec),
                          loadBalance(Len(vec), nw, id).ifrom, t, rbOf[t], id)
        ELSE IF reduceOp = "sum"
             THEN reduceVectorSum(wkSumTot(vec, nw, id, un), t, rbOf[t])
             ELSE reduceVectorProduct(wkProductTot(vec, nw, id, un), t, rbOf[t])

\* the callback of a worker script that issues the partitioned operation of
\* the tag it is registered for, and the one that issues the operation of the
\* other tag (the callbacks 1 and 2 issue nothing)
IssuingHandler == 3
ForwardingHandler == 4

\* handleTrigger(data, obj) in worker w: the callback registered for data.tag is
\* called with args, or the unregistered tag is logged.  A callback that issues
\* the operation of its tag posts the report within the call.
handleTrigger(w, data, obj) ==
    IF triggers[w][data.tag] # NoHandler
    THEN /\ invoked' = [invoked EXCEPT
                          ![w] = Append(@, [h |-> triggers[w][data.tag],
                                            args |-> HandlerArgs(data, obj)])]
         /\ UNCHANGED wkLogged
         /\ IF triggers[w][data.tag] \in {IssuingHandler, ForwardingHandler}
            THEN LET t == IF triggers[w][data.tag] = IssuingHandler THEN data.tag
                          ELSE CHOOSE u \in Tags : u # data.tag
                 IN  /\ sent[w][t] < MaxCalls
                     /\ toCoord' = [toCoord EXCEPT ![w] = Append(@, Report(w, t))]
                     /\ sent' = [sent EXCEPT ![w][t] = @ + 1]
            ELSE UNCHANGED <<toCoord, sent>>
    ELSE /\ wkLogged' = [wkLogged EXCEPT ![w] = @ + 1]
         /\ UNCHANGED <<invoked, toCoord, sent>>

\* self.onmessage: the worker handles the next message of its channel
WorkerOnMessage(w) ==
    /\ regs[w] = scriptOn
    /\ toWorker[w] # <<>>
    /\ LET data == Head(toWorker[w])
       IN  /\ toWorker' = [toWorker EXCEPT ![w] = Tail(@)]
           /\ CASE data.handle = "_init" ->
                     \* handleInit
                     /\ myWorkerId' = [myWorkerId EXCEPT ![w] = data.id]
                     /\ wkNWorkers' = [wkNWorkers EXCEPT ![w] = data.nWorkers]
                     /\ wkUnrollLoops' = [wkUnrollLoops EXCEPT ![w] = data.unrollLoops]
                     /\ wkInited' = [wkInited EXCEPT ![w] = TRUE]
                     /\ toCoord' = [toCoord EXCEPT
                                      ![w] = Append(@, [BlankMessage EXCEPT
                                                           !.handle = "_workerReady"])]
                     /\ UNCHANGED <<wkObjectBuffer, invoked, wkLogged, sent>>
                [] data.handle = "_trigger" ->
                     /\ handleTrigger(w, data, NoObject)
                     /\ UNCHANGED workerVars
                [] data.handle = "_broadcastData" ->
                     \* handleBroadcastData
                     /\ wkObjectBuffer' = [wkObjectBuffer EXCEPT ![w] = data.data]
                     /\ handleTrigger(w, data, NoObject)
                     /\ UNCHANGED <<myWorkerId, wkNWorkers, wkUnrollLoops, wkInited>>
                [] data.handle = "_broadcastVector" ->
                     \* handleBroadcastVector: Vector.fromArray copies the elements
                     /\ wkObjectBuffer' = [wkObjectBuffer EXCEPT
                                             ![w] = VectorBuffer(data.vec)]
                     /\ handleTrigger(w, data, VectorBuffer(data.vec))
                     /\ UNCHANGED <<myWorkerId, wkNWorkers, wkUnrollLoops, wkInited>>
                [] data.handle = "_broadcastMatrix" ->
                     \* handleBroadcastMatrix: a Matrix over the rows received
                     /\ wkObjectBuffer' = [wkObjectBuffer EXCEPT
                                             ![w] = MatrixBuffer(data.rows)]
                     /\ handleTrigger(w, data, MatrixBuffer(data.rows))
                     /\ UNCHANGED <<myWorkerId, wkNWorkers, wkUnrollLoops, wkInited>>
                [] OTHER ->
                     \* default: console.error("Invalid MathWorker handle: ...")
                     /\ wkLogged' = [wkLogged EXCEPT ![w] = @ + 1]
                     /\ UNCHANGED <<workerVars, toCoord, invoked, sent>>
    /\ UNCHANGED <<coordVars, scriptVars, calls, arrived, emitted, posted, closes,
                   closedValue, lbVars, poolVars, mainVars, wkVars, opResult, triggers, regs>>

\* MathWorker.on(tag, callback): triggers[tag] = [callback]
on(trig, tag, callback) == [trig EXCEPT ![tag] = callback]

\* the triggers after a run of on calls
RECURSIVE OnAll(_, _)
OnAll(trig, rs) ==
    IF rs = <<>> THEN trig ELSE OnAll(on(trig, Head(rs).tag, Head(rs).h), Tail(rs))

\* worker w's script is loaded: its top level makes its calls of on, in one
\* turn, before the worker handles any message
WorkerOn(w) ==
    /\ regs[w] # scriptOn
    /\ triggers' = [triggers EXCEPT ![w] = OnAll(@, scriptOn)]
    /\ regs' = [regs EXCEPT ![w] = scriptOn]
    /\ UNCHANGED <<coordVars, workerVars, scriptVars, obsVars, lbVars, poolVars, mainVars,
                   wkVars, opResult, invoked, wkLogged, toWorker, toCoord>>

\* the worker's script posts a message of its own, with a handle that is none
\* of the library's
WorkerPost(w) ==
    /\ regs[w] = scriptOn
    /\ calls < MaxCalls
    /\ calls' = calls + 1
    /\ toCoord' = [toCoord EXCEPT ![w] = Append(@, [BlankMessage EXCEPT
                                                      !.handle = "_bogus"])]
    /\ UNCHANGED <<coordVars, workerVars, scriptVars, lbVars, poolVars, mainVars, regVars,
                   wkVars, opResult, toWorker, sent, arrived, emitted, posted, closes,
                   closedValue>>

\* the worker's script makes the call wkCall: the checks throw, or the call
\* reaches its one gather / reduce call, which posts one message
IssueWkCall ==
    /\ wkCall # NoCall
    /\ ~wkResult.done
    /\ wkResult' = [done |-> TRUE, thrown |-> WkThrows(wkCall),
                    posted |-> IF WkThrows(wkCall) = "" THEN 1 ELSE 0]
    /\ UNCHANGED <<coordVars, workerVars, scriptVars, obsVars, lbVars, poolVars, mainVars,
                   regVars, wkCall, opResult, toWorker, toCoord>>

\* the script of an initialised worker issues a partitioned operation
WorkerCall(w, t) ==
    /\ regs[w] = scriptOn
    /\ wkInited[w]
    /\ calls < MaxCalls
    /\ toCoord' = [toCoord EXCEPT ![w] = Append(@, Report(w, t))]
    /\ calls' = calls + 1
    /\ sent' = [sent EXCEPT ![w][t] = @ + 1]
    /\ UNCHANGED <<coordVars, workerVars, scriptVars, toWorker, lbVars, poolVars,
                   arrived, emitted, posted, closes, closedValue, mainVars,
                   regVars, wkVars, opResult>>

\* ------------------------------------------ MW.Coordinator: message handlers

\* what a handler run changes: the counter, the buffer, the ready flag, the
\* event it emits ("" for none), the message it posts to every worker (at most
\* one) and the tag of the round it closes ("" for none)
Outcome(nwr, ob, rdy, emit, toAll, closed) ==
    [nWorkersReported |-> nwr, objectBuffer |-> ob, ready |-> rdy, emit |-> emit,
     toAll |-> toAll, closed |-> closed]

\* a handler that throws, or only logs: nothing but the buffer may have changed
NoEffect(ob) == Outcome(nWorkersReported, ob, ready, "", <<>>, "")

\* sendVectorToWorkers(objectBuffer, tag): a copy of the array for every worker
sendVectorToWorkers(ob, tag) ==
    [BlankMessage EXCEPT !.handle = "_broadcastVector", !.tag = tag, !.vec = ob.arr]

\* sendDataToWorkers(objectBuffer, tag)
sendDataToWorkers(ob, tag) ==
    [BlankMessage EXCEPT !.handle = "_broadcastData", !.tag = tag, !.data = ob]

\* the tail shared by the gather and reduce handlers: count the report; at
\* nWorkers reports rebroadcast or emit, and reset the counter
CountReport(data, ob, bcast) ==
    IF nWorkersReported + 1 = nWorkers
    THEN IF data.rebroadcast
         THEN Outcome(0, ob, ready, "", <<bcast>>, data.tag)
         ELSE Outcome(0, ob, ready, data.tag, <<>>, data.tag)
    ELSE Outcome(nWorkersReported + 1, ob, ready, "", <<>>, "")

handleWorkerReady ==
    IF nWorkersReported + 1 = nWorkers
    THEN Outcome(0, objectBuffer, TRUE, "_ready", <<>>, "")
    ELSE Outcome(nWorkersReported + 1, objectBuffer, ready, "", <<>>, "")

\* the part is written at its offset into the buffer's array; an element past
\* the end of a Float64Array is dropped; writing into a buffer that is no
\* Vector throws
handleGatherVector(data) ==
    LET ob1 == IF nWorkersReported = 0
               THEN VectorBuffer([i \in 1..data.len |-> 0])
               ELSE objectBuffer
        part == data.vectorPart
        written == [i \in 1..Len(ob1.arr) |->
                      IF data.offset < i /\ i <= data.offset + Len(part)
                      THEN part[i - data.offset] ELSE ob1.arr[i]]
    IN  IF part = <<>>
        THEN CountReport(data, ob1, sendVectorToWorkers(ob1, data.tag))
        ELSE IF ob1.kind # "vector"
             THEN NoEffect(ob1)
             ELSE CountReport(data, VectorBuffer(written),
                              sendVectorToWorkers(VectorBuffer(written), data.tag))

handleVectorSum(data) ==
    LET ob1 == IF nWorkersReported = 0 THEN NumberBuffer(data.tot)
               ELSE IF objectBuffer.kind = "number"
                    THEN NumberBuffer(objectBuffer.num + data.tot)
                    ELSE Garbage
    IN  CountReport(data, ob1, sendDataToWorkers(ob1, data.tag))

handleVectorProduct(data) ==
    LET ob1 == IF nWorkersReported = 0 THEN NumberBuffer(data.tot)
               ELSE IF objectBuffer.kind = "number"
                    THEN NumberBuffer(objectBuffer.num * data.tot)
                    ELSE Garbage
    IN  CountReport(data, ob1, sendDataToWorkers(ob1, data.tag))

\* sendMatrixToWorkers(objectBuffer, tag): a copy of every row for every worker
sendMatrixToWorkers(ob, tag) ==
    [BlankMessage EXCEPT !.handle = "_broadcastMatrix", !.tag = tag,
                         !.nrows = nrowsOf(ob.rows), !.rows = ob.rows]

\* messageDataBuffer[data.id] = data.data, the first statement of handleSendData
StoreData(data) ==
    [i \in (DOMAIN messageDataBuffer) \cup {data.id} |->
        IF i = data.id THEN data.data ELSE messageDataBuffer[i]]

\* handleSendData after the store: the report is counted; at nWorkers reports
\* the tag is emitted and the counter reset
handleSendData(data) ==
    IF nWorkersReported + 1 = nWorkers
    THEN Outcome(0, objectBuffer, ready, data.tag, <<>>, data.tag)
    ELSE Outcome(nWorkersReported + 1, objectBuffer, ready, "", <<>>, "")

\* the buffer becomes a Vector over the array received, the tag is emitted; no
\* report is counted
handleVectorSendToCoordinator(data) ==
    Outcome(nWorkersReported, VectorBuffer(data.vectorBuffer), ready, data.tag, <<>>,
            data.tag)

\* the buffer becomes a Matrix of the rows received, the tag is emitted; no
\* report is counted.  setMatrix throws on an empty list of rows.
handleMatrixSendToCoordinator(data) ==
    IF data.nrows = 0
    THEN NoEffect(MatrixBuffer(<<>>))
    ELSE Outcome(nWorkersReported, MatrixBuffer(data.rows), ready, data.tag, <<>>,
                 data.tag)

\* new MW.Matrix(nrows, ncols): zeroes
NewMatrix(nrows, ncols) == [i \in 1..nrows |-> [j \in 1..ncols |-> 0]]

\* the rows of the part replace the rows offset.. of the buffer's array;
\* writing into a buffer that is no Matrix throws
handleGatherMatrixRows(data) ==
    LET ob1 == IF nWorkersReported = 0
               THEN MatrixBuffer(NewMatrix(data.nrows, data.ncols))
               ELSE objectBuffer
        written == [i \in 1..Max(Len(ob1.rows), data.offset + data.nrowsPart) |->
                      IF data.offset < i /\ i <= data.offset + data.nrowsPart
                      THEN data.rows[i - data.offset] ELSE ob1.rows[i]]
    IN  IF data.nrowsPart = 0
        THEN CountReport(data, ob1, sendMatrixToWorkers(ob1, data.tag))
        ELSE IF ob1.kind # "matrix"
             THEN NoEffect(ob1)
             ELSE CountReport(data, MatrixBuffer(written),
                              sendMatrixToWorkers(MatrixBuffer(written), data.tag))

\* row k of the part (the array in data is transposed) is written down column
\* offset + k of the buffer's array; an element past the end of a row is
\* dropped; writing into a buffer that is no Matrix, or below its last row,
\* throws
handleGatherMatrixColumns(data) ==
    LET ob1 == IF nWorkersReported = 0
               THEN MatrixBuffer(NewMatrix(data.nrows, data.ncols))
               ELSE objectBuffer
        written == [i \in 1..Len(ob1.rows) |->
                      [c \in 1..Len(ob1.rows[i]) |->
                          IF data.offset < c /\ c <= data.offset + data.nrowsPart
                             /\ i <= Len(data.rows[c - data.offset])
                          THEN data.rows[c - data.offset][i] ELSE ob1.rows[i][c]]]
        tooLong == \E k \in 1..data.nrowsPart : Len(data.rows[k]) > Len(ob1.rows)
    IN  IF data.nrowsPart = 0
        THEN CountReport(data, ob1, sendMatrixToWorkers(ob1, data.tag))
        ELSE IF ob1.kind # "matrix" \/ tooLong
             THEN NoEffect(ob1)
             ELSE CountReport(data, MatrixBuffer(written),
                              sendMatrixToWorkers(MatrixBuffer(written), data.tag))

\* the handles of the switch in onmessageHandler
CoordinatorHandles ==
    {"_workerReady", "_sendData", "_vectorSendToCoordinator", "_gatherVector",
     "_matrixSendToCoordinator", "_gatherMatrixRows", "_gatherMatrixColumns",
     "_vectorSum", "_vectorProduct"}

\* mutant: the default branch counts the message as a report and spoils the buffer
InvalidCoordinatorHandle_counted == Outcome(0, Garbage, ready, "", <<>>, "")

\* default: console.error("Invalid Coordinator handle: ...")
InvalidCoordinatorHandle == NoEffect(objectBuffer)

\* onmessageHandler: the switch on data.handle.  The default branch calls no
\* handle* function.  While the handle* variables are unassigned, calling one
\* throws a TypeError and nothing changes.
onmessageHandler(data) ==
    IF data.handle \notin CoordinatorHandles
    THEN InvalidCoordinatorHandle
    ELSE IF ~handlersAssigned
         THEN NoEffect(objectBuffer)
         ELSE CASE data.handle = "_workerReady" -> handleWorkerReady
                [] data.handle = "_sendData" -> handleSendData(data)
                [] data.handle = "_vectorSendToCoordinator" ->
                      handleVectorSendToCoordinator(data)
                [] data.handle = "_gatherVector" -> handleGatherVector(data)
                [] data.handle = "_matrixSendToCoordinator" ->
                      handleMatrixSendToCoordinator(data)
                [] data.handle = "_gatherMatrixRows" -> handleGatherMatrixRows(data)
                [] data.handle = "_gatherMatrixColumns" ->
                      handleGatherMatrixColumns(data)
                [] data.handle = "_vectorSum" -> handleVectorSum(data)
                [] data.handle = "_vectorProduct" -> handleVectorProduct(data)
                [] OTHER -> NoEffect(objectBuffer)

\* var v = new Float64Array(vec.array): the message to worker wk carries the
\* buffer of a copy made for wk
CopyFor(m, wk) == IF m.handle = "_broadcastVector" THEN [m EXCEPT !.buf = wk + 1] ELSE m

\* the main context takes the next message of worker w's channel; a worker
\* whose onmessage was never set has no listener and its message is discarded
CoordOnMessage(w) ==
    /\ toCoord[w] # <<>>
    /\ LET data == Head(toCoord[w])
           r == IF w \in onmessage THEN onmessageHandler(data) ELSE NoEffect(objectBuffer)
       IN  /\ toCoord' = [toCoord EXCEPT ![w] = Tail(@)]
           /\ arrived' = IF data.tag \in Tags
                         THEN [arrived EXCEPT ![w][data.tag] = @ + 1]
                         ELSE arrived
           /\ nWorkersReported' = r.nWorkersReported
           /\ messageDataBuffer' = IF w \in onmessage /\ handlersAssigned
                                      /\ data.handle = "_sendData"
                                   THEN StoreData(data) ELSE messageDataBuffer
           /\ objectBuffer' = r.objectBuffer
           /\ ready' = r.ready
           /\ emitted' = IF r.emit # "" THEN [emitted EXCEPT ![r.emit] = @ + 1] ELSE emitted
           \* EventEmitter.emit: the callback registered for the name is called
           /\ called' = IF r.emit # "" /\ events[r.emit] # NoHandler
                        THEN Append(called, [name |-> r.emit, h |-> events[r.emit]])
                        ELSE called
           /\ logged' = IF w \in onmessage /\ data.handle \notin CoordinatorHandles
                        THEN logged + 1 ELSE logged
           /\ toWorker' = [v \in Workers |->
                             toWorker[v] \o [i \in 1..Len(r.toAll) |-> CopyFor(r.toAll[i], v)]]
           /\ posted' = IF r.toAll # <<>>
                        THEN [v \in Workers |-> [posted[v] EXCEPT ![r.closed] = @ + 1]]
                        ELSE posted
           /\ closes' = IF r.closed # "" THEN [closes EXCEPT ![r.closed] = @ + 1] ELSE closes
           /\ closedValue' = IF r.closed # ""
                             THEN [closedValue EXCEPT ![r.closed] = r.objectBuffer]
                             ELSE closedValue
    /\ UNCHANGED <<envVars, nWorkers, unrollLoops, onmessage, handlersAssigned,
                   workerVars, scriptVars, calls, sent, lbVars, poolVars, events, callerCalls,
                   callerVec, regVars, wkVars, opResult>>

Next ==
    \/ \E w \in Workers : WorkerOnMessage(w)
    \/ \E w \in Workers, t \in Tags : WorkerCall(w, t)
    \/ \E w \in Workers : CoordOnMessage(w)

Spec == Init /\ [][Next]_vars

\* ------------------------------------------------------- the main script

\* the main script holds a Coordinator only if new MW.Coordinator returned
Constructed == thrown = "none"

\* the argument lists the main script passes to trigger
TriggerArgs == {ArgsBuffer(<<7>>)}

\* Coordinator.trigger(tag, args): the message posted to every worker
trigger(tag, args) ==
    [BlankMessage EXCEPT !.handle = "_trigger", !.tag = tag, !.args = args]

\* a call of the main script, as it is recorded in callerCalls
CallerCall(op, tag, args, h) == [op |-> op, tag |-> tag, args |-> args, h |-> h]

\* the main script calls crd.trigger(tag, args) on what new MW.Coordinator gave
\* it; with no Coordinator the call throws a TypeError and posts nothing
CallerTrigger(tag, args) ==
    /\ Len(callerCalls) < MaxCallerOps
    /\ callerCalls' = Append(callerCalls, CallerCall("trigger", tag, args, NoHandler))
    /\ toWorker' = IF Constructed
                   THEN [wk \in Workers |-> Append(toWorker[wk], trigger(tag, args))]
                   ELSE toWorker
    /\ UNCHANGED <<coordVars, workerVars, scriptVars, obsVars, lbVars, poolVars, events, called,
                   logged, callerVec, regVars, wkVars, opResult, toCoord>>

\* the main script calls crd.sendVectorToWorkers(callerVec, tag): a copy of the
\* array is made for every worker and the copy's buffer is transferred
CallerSendVector(tag) ==
    /\ Len(callerCalls) < MaxCallerOps
    /\ callerCalls' = Append(callerCalls,
                             CallerCall("sendVectorToWorkers", tag, ArgsBuffer(<<>>),
                                        NoHandler))
    /\ toWorker' = IF Constructed
                   THEN [wk \in Workers |->
                           Append(toWorker[wk],
                                  CopyFor(sendVectorToWorkers(VectorBuffer(callerVec.arr),
                                                              tag), wk))]
                   ELSE toWorker
    /\ UNCHANGED <<coordVars, workerVars, scriptVars, obsVars, lbVars, poolVars, events, called,
                   logged, callerVec, regVars, wkVars, opResult, toCoord>>

\* the main script calls crd.on(name, callback) (EventEmitter.on): the callback
\* replaces the one registered for the name
CallerOn(name) ==
    /\ Len(callerCalls) < MaxCallerOps
    /\ callerCalls' = Append(callerCalls,
                             CallerCall("on", name, ArgsBuffer(<<>>),
                                        HandlerAt(Len(callerCalls))))
    /\ events' = IF Constructed
                 THEN [events EXCEPT ![name] = HandlerAt(Len(callerCalls))]
                 ELSE events
    /\ UNCHANGED <<coordVars, workerVars, scriptVars, obsVars, lbVars, poolVars, called, logged,
                   callerVec, regVars, wkVars, opResult, toWorker, toCoord>>

\* the pool is constructed, in a runtime with or without Worker, for worker
\* scripts that issue no partitioned operation
CallsInit ==
    /\ workerSupport \in BOOLEAN
    /\ \E n \in 1..MaxWorkers : Coordinator(n, FALSE)
    /\ WorkerDefaults
    /\ vec = <<1>>
    /\ reduceOp = "sum"
    /\ rbOf = [t \in Tags |-> FALSE]
    /\ scriptOn \in ScriptsOn
    /\ NothingObserved
    /\ NothingRegistered
    /\ CallerIdle
    /\ scriptOp = NoScriptOp
    /\ NoScriptCalls
    /\ NoPool
    /\ wkCall = NoCall
    /\ wkResult = NoResult
    /\ lbExtent = 1 /\ lbWorkers = 1 /\ lbRanges = <<>>

CallsNext ==
    \/ \E w \in Workers : WorkerOn(w)
    \/ \E w \in Workers : WorkerOnMessage(w)
    \/ \E w \in Workers : CoordOnMessage(w)
    \/ \E t \in Tags, a \in TriggerArgs : CallerTrigger(t, a)
    \/ \E t \in Tags : CallerSendVector(t)
    \/ \E e \in EventNames : CallerOn(e)

SpecCalls == CallsInit /\ [][CallsNext]_vars

\* ------------------------------------------- messages of the script's own

\* the pool is constructed; the worker scripts issue partitioned operations
\* and post messages of their own
PostsInit ==
    /\ workerSupport = TRUE
    /\ \E n \in 1..MaxWorkers : Coordinator(n, FALSE)
    /\ WorkerDefaults
    /\ vec = <<2, 1>>
    /\ reduceOp = "sum"
    /\ rbOf \in [Tags -> BOOLEAN]
    /\ scriptOn = <<>>
    /\ NothingObserved
    /\ NothingRegistered
    /\ CallerIdle
    /\ scriptOp = NoScriptOp
    /\ NoScriptCalls
    /\ NoPool
    /\ wkCall = NoCall
    /\ wkResult = NoResult
    /\ lbExtent = 1 /\ lbWorkers = 1 /\ lbRanges = <<>>

PostsNext ==
    \/ \E w \in Workers : WorkerOnMessage(w)
    \/ \E w \in Workers, t \in Tags : WorkerCall(w, t)
    \/ \E w \in Workers : WorkerPost(w)
    \/ \E w \in Workers : CoordOnMessage(w)

SpecPosts == PostsInit /\ [][PostsNext]_vars

\* ----------------------------------- callbacks that issue the tag's operation

\* the pool is constructed; the worker scripts register, for some of the tags,
\* a callback that issues the operation of its tag, or for one tag a callback
\* that issues the operation of the other and for that other a callback that
\* issues nothing; the main script triggers
HandlersInit ==
    /\ workerSupport = TRUE
    /\ \E n \in 1..MaxWorkers : Coordinator(n, FALSE)
    /\ WorkerDefaults
    /\ vec \in Vectors
    /\ reduceOp \in ReduceOps
    /\ rbOf \in [Tags -> BOOLEAN]
    /\ scriptOn \in {<<>>, <<[tag |-> "tA", h |-> IssuingHandler]>>,
                     <<[tag |-> "tR", h |-> IssuingHandler]>>,
                     <<[tag |-> "tA", h |-> IssuingHandler],
                       [tag |-> "tR", h |-> IssuingHandler]>>}
                    \cup {<<[tag |-> t, h |-> ForwardingHandler],
                             [tag |-> CHOOSE u \in Tags : u # t,
                              h |-> HandlerAt(0)]>> : t \in Tags}
    /\ NothingObserved
    /\ NothingRegistered
    /\ CallerIdle
    /\ scriptOp = NoScriptOp
    /\ NoScriptCalls
    /\ NoPool
    /\ wkCall = NoCall
    /\ wkResult = NoResult
    /\ lbExtent = 1 /\ lbWorkers = 1 /\ lbRanges = <<>>

HandlersNext ==
    \/ \E w \in Workers : WorkerOn(w)
    \/ \E w \in Workers : WorkerOnMessage(w)
    \/ \E w \in Workers : CoordOnMessage(w)
    \/ \E t \in Tags, a \in TriggerArgs : CallerTrigger(t, a)

SpecHandlers == HandlersInit /\ [][HandlersNext]_vars

\* ------------------------------------------ worker-partitioned calls, checked

\* one worker, whose script is about to make one call
WkInit ==
    /\ wkCall \in WkCalls
    /\ wkResult = NoResult
    /\ workerSupport = TRUE
    /\ Coordinator(1, FALSE)
    /\ WorkerDefaults
    /\ vec = <<1>>
    /\ reduceOp = "sum"
    /\ rbOf = [t \in Tags |-> FALSE]
    /\ scriptOn = <<>>
    /\ NothingObserved
    /\ NothingRegistered
    /\ CallerIdle
    /\ scriptOp = NoScriptOp
    /\ NoScriptCalls
    /\ NoPool
    /\ lbExtent = 1 /\ lbWorkers = 1 /\ lbRanges = <<>>

SpecWk == WkInit /\ [][IssueWkCall]_vars

\* ------------------------------------- sends and gathers of Matrix results

\* what the call scriptOp comes to in worker w, with the worker's globals
ScriptOutcome(w) ==
    LET o == scriptOp
        nw == wkNWorkers[w]
        id == myWorkerId[w]
        un == wkUnrollLoops[w]
        rb == rbOf[o.tag]
    IN  CASE o.op = "sendDataToCoordinator" -> sendDataToCoordinator(DataOf(w), o.tag, id)
          [] o.op = "sendVectorToCoordinator" -> sendVectorToCoordinator(o.x, o.tag, id)
          [] o.op = "sendMatrixToCoordinator" -> sendMatrixToCoordinator(o.A, o.tag, id)
          [] o.op = "wkDotMatrix" -> wkDotMatrix(o.A, o.B, o.tag, rb, nw, id, un)
          [] o.op = "wkDotVector" -> wkDotVector(o.A, o.x, o.tag, rb, nw, id, un)
          [] o.op = "Vector.wkDotMatrix" ->
                Vector_wkDotMatrix(o.x, o.A, o.tag, rb, nw, id, un)
          [] o.op = "wkMatrixMatrixPlus" ->
                wkMatrixMatrixPlus(o.alpha, o.A, o.B, o.tag, rb, o.beta, o.C, nw, id)
          [] o.op = "wkMatrixVectorPlus" ->
                wkMatrixVectorPlus(o.alpha, o.A, o.x, o.tag, rb, o.beta, o.y, nw, id)
          [] o.op = "wkVectorLinearCombination" ->
                wkVectorLinearCombination(o.vectors, o.coefficients, o.tag, rb, nw, id, un)
          [] o.op = "wkMatrixLinearCombination" ->
                wkMatrixLinearCombination(o.matrices, o.coefficients, o.tag, rb, nw, id)
          [] OTHER -> WkOutcome("", <<>>, NotPassed)

\* the script of the initialised worker w makes its call: it throws, or it
\* returns after posting its messages
ScriptCall(w) ==
    /\ scriptOp # NoScriptOp
    /\ regs[w] = scriptOn
    /\ wkInited[w]
    /\ ~opResult[w].done
    /\ LET r == ScriptOutcome(w)
       IN  /\ opResult' = [opResult EXCEPT
                             ![w] = [done |-> TRUE, thrown |-> r.thrown,
                                     posted |-> Len(r.msgs), B |-> r.B]]
           /\ toCoord' = [toCoord EXCEPT ![w] = @ \o r.msgs]
           /\ sent' = IF r.msgs # <<>>
                      THEN [sent EXCEPT ![w][scriptOp.tag] = @ + 1]
                      ELSE sent
    /\ calls' = calls + 1
    /\ UNCHANGED <<coordVars, workerVars, scriptVars, toWorker, lbVars, poolVars, arrived,
                   emitted, posted, closes, closedValue, mainVars, regVars, wkVars>>

\* the pool is constructed; the script of every worker makes the same call once
BatchInit ==
    /\ workerSupport = TRUE
    /\ \E n \in 1..MaxWorkers, unroll \in BOOLEAN : Coordinator(n, unroll)
    /\ WorkerDefaults
    /\ vec = <<1>>
    /\ reduceOp = "sum"
    /\ rbOf = [t \in Tags |-> FALSE]
    /\ scriptOn = <<>>
    /\ scriptOp \in ScriptOps
    /\ NoScriptCalls
    /\ NoPool
    /\ NothingObserved
    /\ NothingRegistered
    /\ CallerIdle
    /\ wkCall = NoCall
    /\ wkResult = NoResult
    /\ lbExtent = 1 /\ lbWorkers = 1 /\ lbRanges = <<>>

BatchNext ==
    \/ \E w \in Workers : WorkerOnMessage(w)
    \/ \E w \in Workers : ScriptCall(w)
    \/ \E w \in Workers : CoordOnMessage(w)

SpecBatch == BatchInit /\ [][BatchNext]_vars

\* ------------------- MathWorkers.Coordinator (src/main/core/coordinator.js)

\* a message posted to a worker: _init carries id and isNode, _broadcastMessage
\* carries message
PoolMessage(handle, id, isNode, message) ==
    [handle |-> handle, id |-> id, isNode |-> isNode, message |-> message]

\* the messages the main script broadcasts
PoolMessages == {"m1", "m2"}

\* new MathWorkers.Coordinator(n, path, isNode): worker i is created, given the
\* handler, posted _init and pushed onto this.workerPool
MathWorkersCoordinator(n, isNode) ==
    /\ thisNWorkers = n
    /\ thisWorkerPool = [i \in 1..n |-> i - 1]
    /\ disconnected = [w \in 0..(n - 1) |-> 0]
    /\ inbox = [w \in 0..(n - 1) |-> <<PoolMessage("_init", w, isNode, "")>>]
    /\ poolCalls = <<>>

\* the workers of this.workerPool
PoolMembers == {thisWorkerPool[i] : i \in 1..Len(thisWorkerPool)}

\* mutant: disconnect leaves this.workerPool as it is
WorkerPoolAfterDisconnect_kept == thisWorkerPool

\* this.workerPool = [], the last statement of disconnect
WorkerPoolAfterDisconnect == <<>>

\* Coordinator.disconnect(): MathWorkers.comm.disconnect is called on every
\* worker of this.workerPool, then nWorkers and the pool are reset
disconnect ==
    /\ Len(poolCalls) < MaxCalls
    /\ poolCalls' = Append(poolCalls, [op |-> "disconnect", message |-> ""])
    /\ disconnected' = [w \in DOMAIN disconnected |->
                          IF w \in PoolMembers THEN disconnected[w] + 1
                          ELSE disconnected[w]]
    /\ thisNWorkers' = 0
    /\ thisWorkerPool' = WorkerPoolAfterDisconnect
    /\ UNCHANGED <<inbox, sysVars, lbVars>>

\* Coordinator.broadcastMessage(message): one _broadcastMessage is posted to
\* every worker of this.workerPool
broadcastMessage(message) ==
    /\ Len(poolCalls) < MaxCalls
    /\ poolCalls' = Append(poolCalls, [op |-> "broadcastMessage", message |-> message])
    /\ inbox' = [w \in DOMAIN inbox |->
                   IF w \in PoolMembers
                   THEN Append(inbox[w],
                               PoolMessage("_broadcastMessage", Undefined, FALSE, message))
                   ELSE inbox[w]]
    /\ UNCHANGED <<thisNWorkers, thisWorkerPool, disconnected, sysVars, lbVars>>

\* a pool of the newer Coordinator is constructed; the main script goes on to
\* broadcast and to disconnect.  The pool of MW.Coordinator stays as constructed.
PoolInit ==
    /\ \E n \in 1..MaxPool, isNode \in BOOLEAN : MathWorkersCoordinator(n, isNode)
    /\ workerSupport = TRUE
    /\ Coordinator(1, FALSE)
    /\ WorkerDefaults
    /\ vec = <<1>>
    /\ reduceOp = "sum"
    /\ rbOf = [t \in Tags |-> FALSE]
    /\ scriptOn = <<>>
    /\ scriptOp = NoScriptOp
    /\ NoScriptCalls
    /\ NothingObserved
    /\ NothingRegistered
    /\ CallerIdle
    /\ wkCall = NoCall
    /\ wkResult = NoResult
    /\ lbExtent = 1 /\ lbWorkers = 1 /\ lbRanges = <<>>

PoolNext ==
    \/ disconnect
    \/ \E m \in PoolMessages : broadcastMessage(m)

SpecPool == PoolInit /\ [][PoolNext]_vars

\* ----------------------------------------- the planner, applied to every id

\* an extent and a worker count are chosen; no worker has asked for its range
\* yet.  The pool itself stays as constructed.
LBInit ==
    /\ lbExtent \in 1..MaxExtent
    /\ lbWorkers \in 1..MaxPool
    /\ lbRanges = <<>>
    /\ workerSupport = TRUE
    /\ Coordinator(1, FALSE)
    /\ NothingRegistered
    /\ CallerIdle
    /\ scriptOp = NoScriptOp
    /\ NoScriptCalls
    /\ NoPool
    /\ wkCall = NoCall
    /\ wkResult = NoResult
    /\ WorkerDefaults
    /\ vec = <<1>>
    /\ reduceOp = "sum"
    /\ rbOf = [t \in Tags |-> FALSE]
    /\ scriptOn = <<>>
    /\ NothingObserved

\* the worker with the next id calls loadBalance(lbExtent)
LBCall ==
    /\ Len(lbRanges) < lbWorkers
    /\ lbRanges' = Append(lbRanges, loadBalance(lbExtent, lbWorkers, Len(lbRanges)))
    /\ UNCHANGED <<lbExtent, lbWorkers, sysVars, poolVars>>

SpecLB == LBInit /\ [][LBCall]_vars

RangeLen(r) == r.ito - r.ifrom
RangeSet(r) == {i \in 0..(lbExtent - 1) : r.ifrom <= i /\ i < r.ito}

\* C1: the ranges of worker ids 0..N-1 are ordered by id and pairwise disjoint
\* (each starts at or after the end of the one before, none is inverted), lie
\* in [0, n), their lengths differ by at most 1, and once all N ids have their
\* range the union is exactly [0, n).
C1_Partition ==
    /\ \A k \in 1..Len(lbRanges) :
          /\ 0 <= lbRanges[k].ifrom
          /\ lbRanges[k].ifrom <= lbRanges[k].ito
          /\ lbRanges[k].ito <= lbExtent
    /\ \A j, k \in 1..Len(lbRanges) :
          /\ j < k => lbRanges[j].ito <= lbRanges[k].ifrom
          /\ RangeLen(lbRanges[j]) - RangeLen(lbRanges[k]) \in {-1, 0, 1}
    /\ Len(lbRanges) = lbWorkers =>
          UNION {RangeSet(lbRanges[k]) : k \in 1..lbWorkers} = 0..(lbExtent - 1)

\* a complete partition with a remainder, and one with fewer elements than workers
C1_Witness ==
    /\ Len(lbRanges) = lbWorkers
    /\ lbWorkers >= 3
    /\ lbExtent < lbWorkers
    /\ \E k \in 1..lbWorkers : RangeLen(lbRanges[k]) = 0

\* C2: worker id gets div + 1 elements when id < rem and div otherwise, and
\* starts where worker id - 1 ended (worker 0 at 0); n = 7, N = 3 gives
\* [0,3) [3,5) [5,7) and n = 1000, N = 4 gives four ranges of 250.
C2_Sizes ==
    /\ \A k \in 1..Len(lbRanges) :
          /\ RangeLen(lbRanges[k]) =
                (lbExtent \div lbWorkers) + (IF k - 1 < lbExtent % lbWorkers THEN 1 ELSE 0)
          /\ lbRanges[k].ifrom = (IF k = 1 THEN 0 ELSE lbRanges[k - 1].ito)
    /\ (lbExtent = 7 /\ lbWorkers = 3 /\ Len(lbRanges) = 3) =>
          lbRanges = << [ifrom |-> 0, ito |-> 3], [ifrom |-> 3, ito |-> 5],
                        [ifrom |-> 5, ito |-> 7] >>
    /\ \A id \in 0..3 :
          loadBalance(1000, 4, id) = [ifrom |-> 250 * id, ito |-> 250 * id + 250]

\* the scenario n = 7, N = 3 has been computed in full
C2_Witness ==
    /\ lbExtent = 7
    /\ lbWorkers = 3
    /\ Len(lbRanges) = 3
    /\ lbRanges[1] = [ifrom |-> 0, ito |-> 3]

\* ------------------------------------------------- rounds and their results

\* every worker of the pool has issued the operation of tag t exactly once, all
\* these reports have been taken off the channels by the main context, and no
\* message to the Coordinator is still in flight
RoundDone(t) ==
    /\ \A w \in Workers : sent[w][t] = 1 /\ arrived[w][t] = 1
    /\ \A w \in Workers : toCoord[w] = <<>>

\* t is the only tag any worker has reported under
OnlyTag(t) == \A w \in Workers, u \in Tags \ {t} : sent[w][u] = 0

\* the worker whose reported slice holds element i (counted from 1)
OwnerOf(i) ==
    CHOOSE w \in Workers :
        LET r == Report(w, "tA")
        IN  r.offset < i /\ i <= r.offset + Len(r.vectorPart)

\* the merge of the N reports of a round under t: every slice at its offset,
\* or the sum / product of the N partials
MergeOfReports(t) ==
    IF t = "tA"
    THEN VectorBuffer([i \in 1..Len(vec) |->
             LET r == Report(OwnerOf(i), "tA") IN r.vectorPart[i - r.offset]])
    ELSE LET tots == [k \in 1..nWorkers |-> Report(k - 1, t).tot]
         IN  NumberBuffer(IF reduceOp = "sum" THEN SeqSum(tots) ELSE SeqProduct(tots))

\* C3: once the N workers have each reported once under a tag (and under no
\* other tag), the round's close action has fired exactly once and the report
\* counter is back at 0.
C3_ExactlyOnce ==
    \A t \in Tags :
        (RoundDone(t) /\ OnlyTag(t)) => (closes[t] = 1 /\ nWorkersReported = 0)

C5_RoundCloses ==
    \A t \in Tags :
        (RoundDone(t) /\ OnlyTag(t)) =>
            (emitted[t] >= 1 \/ \A w \in Workers : posted[w][t] >= 1)

\* C6: for a round without rebroadcast, the completion event is emitted and the
\* buffer at that moment is the merge of the round's N reports.
C6_BufferAtEmit ==
    \A t \in Tags :
        (RoundDone(t) /\ ~rbOf[t]) =>
            (emitted[t] = 1 /\ closedValue[t] = MergeOfReports(t))

\* C7: identity applied per partition and gathered gives back the original
\* Vector, for n >= k >= 1.
C7_RoundTrip ==
    (RoundDone("tA") /\ Len(vec) >= nWorkers) =>
        (closes["tA"] = 1 /\ closedValue["tA"] = VectorBuffer(vec))

\* C8: the scalar at barrier close of a wkSum / wkProduct round is the serial
\* sum / product over the full vector.
C8_ReduceIsSerial ==
    RoundDone("tR") =>
        /\ closes["tR"] = 1
        /\ closedValue["tR"] =
              NumberBuffer(IF reduceOp = "sum" THEN SeqSum(vec) ELSE SeqProduct(vec))

\* C9: a round whose reports carry rebroadcast = true ends with one message
\* under the tag to every worker and no completion event; one whose reports
\* carry rebroadcast = false ends with the completion event and no message.
C9_TerminalAction ==
    \A t \in Tags :
        RoundDone(t) =>
            IF rbOf[t]
            THEN emitted[t] = 0 /\ \A w \in Workers : posted[w][t] = 1
            ELSE emitted[t] = 1 /\ \A w \in Workers : posted[w][t] = 0

\* C10: after a rebroadcast round every worker has been sent the merged value
\* and, once it has handled it, its buffer equals the Coordinator's accumulator
\* at barrier close.
C10_RebroadcastFidelity ==
    \A t \in Tags :
        (RoundDone(t) /\ OnlyTag(t) /\ rbOf[t] /\ \A w \in Workers : toWorker[w] = <<>>) =>
            \A w \in Workers :
                posted[w][t] = 1 /\ wkObjectBuffer[w] = closedValue[t]

\* ------------------------------------------------- readiness and construction

\* worker w has handled _init and its _workerReady report has been taken off
\* its channel by the main context
ReadyReported(w) ==
    /\ wkInited[w]
    /\ \A i \in 1..Len(toCoord[w]) : toCoord[w][i].handle # "_workerReady"

\* C11: the ready flag is set and _ready is emitted only when the _workerReady
\* report of every worker has arrived, and once they all have arrived the flag
\* is set and _ready has been emitted exactly once, whatever other reports are
\* interleaved with them.
C11_ReadyOnce ==
    /\ (ready \/ emitted["_ready"] > 0) => \A w \in Workers : ReadyReported(w)
    /\ (\A w \in Workers : ReadyReported(w)) => (ready /\ emitted["_ready"] = 1)

\* the _init messages worker w has been sent: the one it has handled and those
\* still on its channel
InitCount(w) ==
    (IF wkInited[w] THEN 1 ELSE 0)
    + Cardinality({i \in 1..Len(toWorker[w]) : toWorker[w][i].handle = "_init"})

\* C12: constructing a Coordinator of N workers spawns workers 0..N-1, sends each
\* exactly one _init with its own id and N, registers the Coordinator's message
\* handler on every worker, and the pool holds exactly those N workers.
C12_Construction ==
    workerSupport =>
        /\ workerPool = 0..(nWorkers - 1)
        /\ \A w \in workerPool :
              /\ InitCount(w) = 1
              /\ wkInited[w] => (myWorkerId[w] = w /\ wkNWorkers[w] = nWorkers)
              /\ ~wkInited[w] =>
                    (Head(toWorker[w]).id = w /\ Head(toWorker[w]).nWorkers = nWorkers)
        /\ onmessage = workerPool

\* C13: where Worker is undefined the construction throws an Error, no worker
\* is spawned, no _init is sent (there is no channel) and the pool is empty.
C13_NoWorkerSupport ==
    ~workerSupport =>
        /\ thrown = "Error"
        /\ workerPool = {}
        /\ DOMAIN toWorker = {}
        /\ onmessage = {}

\* the construction has failed for want of Worker, and the main script has gone
\* on to call the Coordinator it did not get
C13_Witness ==
    /\ ~workerSupport
    /\ thrown = "Error"
    /\ workerPool = {}
    /\ callerCalls # <<>>

\* ------------------------------------------------- the main script's calls

\* the main script has made exactly one call, of op, in a runtime with Worker
OnlyCall(op) ==
    /\ workerSupport
    /\ Len(callerCalls) = 1
    /\ callerCalls[1].op = op

\* the places of the _broadcastVector messages on worker w's channel
BroadcastsTo(w) ==
    {i \in 1..Len(toWorker[w]) : toWorker[w][i].handle = "_broadcastVector"}

\* C14: after one sendVectorToWorkers call every worker has been sent exactly
\* one message (it is on its channel, or the worker has taken the Vector into
\* its buffer), each message carries the elements in a buffer that is neither
\* the caller's nor the one sent to another worker, and the caller's Vector is
\* unchanged and not detached.
C14_OneCopyEach ==
    OnlyCall("sendVectorToWorkers") =>
        /\ \A w \in Workers :
              \/ /\ Cardinality(BroadcastsTo(w)) = 1
                 /\ \A i \in BroadcastsTo(w) :
                       /\ toWorker[w][i].vec = callerVec.arr
                       /\ toWorker[w][i].buf \notin {CallerBuffer, Undefined}
                       /\ \A v \in Workers \ {w} : \A j \in BroadcastsTo(v) :
                             toWorker[v][j].buf # toWorker[w][i].buf
              \/ /\ BroadcastsTo(w) = {}
                 /\ wkObjectBuffer[w] = VectorBuffer(callerVec.arr)
        /\ callerVec = [arr |-> <<1, 2>>, buf |-> CallerBuffer, detached |-> FALSE]

\* every worker has loaded its script and handled every message sent to it
WorkersIdle == \A w \in Workers : regs[w] = scriptOn /\ toWorker[w] = <<>>

\* C15: after one trigger(tag, args) call, once the workers have handled their
\* messages, every worker with a callback registered for tag has invoked that
\* callback exactly once, with args, and has invoked nothing else.
C15_TriggerInvokes ==
    (OnlyCall("trigger") /\ WorkersIdle) =>
        \A w \in Workers :
            invoked[w] =
                IF triggers[w][callerCalls[1].tag] # NoHandler
                THEN << [h |-> triggers[w][callerCalls[1].tag],
                        args |-> callerCalls[1].args] >>
                ELSE <<>>

\* the callback the run rs of on calls registered last for tag t
RECURSIVE LastRegistered(_, _)
LastRegistered(rs, t) ==
    IF rs = <<>> THEN NoHandler
    ELSE IF rs[Len(rs)].tag = t THEN rs[Len(rs)].h
         ELSE LastRegistered(SubSeq(rs, 1, Len(rs) - 1), t)

\* the on calls among the main script's calls, as a run of registrations
RECURSIVE CallerRegs(_)
CallerRegs(cs) ==
    IF cs = <<>> THEN <<>>
    ELSE IF Head(cs).op = "on"
         THEN <<[tag |-> Head(cs).tag, h |-> Head(cs).h]>> \o CallerRegs(Tail(cs))
         ELSE CallerRegs(Tail(cs))

\* C16: after any run of on calls a tag has one callback, the one registered
\* last (in a worker's triggers and in the Coordinator's events); a callback the
\* Coordinator invokes for a name was registered for it and is invoked at most
\* once per emit; and a trigger of a tag sent after the registrations makes
\* every worker invoke the last registered callback of the tag, once, and no
\* other.
C16_LastRegistrationWins ==
    /\ \A w \in Workers, t \in Tags :
          triggers[w][t] = LastRegistered(regs[w], t)
    /\ workerSupport =>
          \A e \in EventNames :
              /\ events[e] = LastRegistered(CallerRegs(callerCalls), e)
              /\ Cardinality({i \in 1..Len(called) : called[i].name = e}) <= emitted[e]
    /\ (OnlyCall("trigger") /\ WorkersIdle) =>
          \A w \in Workers :
              LastRegistered(scriptOn, callerCalls[1].tag) # NoHandler =>
                  /\ Len(invoked[w]) = 1
                  /\ invoked[w][1].h = LastRegistered(scriptOn, callerCalls[1].tag)

Precondition(c) ==
    /\ c.tag.type # "null"
    /\ CASE c.op = "wkSum" -> TRUE
         [] c.op = "wkPlus" -> c.x.type = "Vector" /\ c.x.n = c.self.n
         [] c.op = "wkScale" -> c.alpha.type = "number"
         [] c.op = "wkApply" -> c.fn.type = "function"
         [] c.op = "wkDotMatrix" -> c.A.type = "Matrix" /\ c.A.n = c.self.n
         [] c.op = "wkVectorLinearCombination" ->
               /\ c.alpha.type = "number" /\ c.beta.type = "number"
               /\ c.x.type = "Vector" /\ c.y.type = "Vector" /\ c.x.n = c.y.n
         [] c.op = "wkMatrixVectorPlus" ->
               /\ c.alpha.type = "number"
               /\ c.A.type = "Matrix" /\ c.x.type = "Vector" /\ c.x.n = c.A.m
               /\ (c.beta.type # "null" /\ c.y.type # "null") =>
                     (c.beta.type = "number" /\ c.y.type = "Vector" /\ c.y.n = c.A.n)
         [] OTHER -> TRUE

\* C18: a worker-partitioned call whose precondition is violated throws and
\* posts no message.
C18_FailsSynchronously ==
    (wkResult.done /\ ~Precondition(wkCall)) =>
        (wkResult.thrown # "" /\ wkResult.posted = 0)

\* C19: when every worker has reported twice under a tag (and under no other)
\* and all reports have arrived, the tag has been closed twice, and the value at
\* the second close is the merge of one report from every worker.
C19_TagReuse ==
    \A t \in Tags :
        (/\ OnlyTag(t)
         /\ \A w \in Workers : sent[w][t] = 2 /\ arrived[w][t] = 2) =>
            (closes[t] = 2 /\ closedValue[t] = MergeOfReports(t))

\* C20: whatever the order of arrival and whatever else the Coordinator has
\* counted, a round whose requests carry rebroadcast = false ends in a
\* completion event and no broadcast, one whose requests carry rebroadcast =
\* true in a broadcast and no completion event.
C20_FlagDecides ==
    \A t \in Tags :
        RoundDone(t) =>
            /\ (emitted[t] > 0) <=> ~rbOf[t]
            /\ \A w \in Workers : (posted[w][t] > 0) <=> rbOf[t]

\* ------------------------------------------------- sends and Matrix gathers

\* C21: in a round in which each of the N workers calls
\* sendDataToCoordinator(data, tag) once, the tag is emitted exactly once,
\* after the N-th report, and entry i of the message data list then holds the
\* data sent by worker i, in every arrival order.
C21_SendDataRound ==
    LET
        \* every worker has made its call and every message has been handled
        over == \A w \in Workers :
                   opResult[w].done /\ toWorker[w] = <<>> /\ toCoord[w] = <<>>
    IN
        scriptOp.op = "sendDataToCoordinator" =>
            /\ emitted["tA"] <= 1
            /\ emitted["tA"] = 1 => \A w \in Workers : arrived[w]["tA"] = 1
            /\ over =>
                  /\ emitted["tA"] = 1
                  /\ \A i \in Workers :
                        i \in DOMAIN messageDataBuffer /\ messageDataBuffer[i] = DataOf(i)

\* C22: when every worker calls sendVectorToCoordinator(vec, tag), only worker
\* 0 sends a message; the Coordinator's buffer becomes that Vector and the tag
\* is emitted exactly once, as soon as that one message has been handled.
C22_SendVector ==
    scriptOp.op = "sendVectorToCoordinator" =>
        /\ \A w \in Workers :
              opResult[w].done => opResult[w].posted = IF w = 0 THEN 1 ELSE 0
        /\ emitted["tA"] <= 1
        /\ (0 \in Workers /\ opResult[0].done /\ toCoord[0] = <<>>) =>
              /\ emitted["tA"] = 1
              /\ objectBuffer = VectorBuffer(scriptOp.x)

\* C23: when every worker calls sendMatrixToCoordinator(mat, tag), worker 0 and
\* only it sends one message with all the rows of mat; the Coordinator's
\* buffer then equals mat and the tag is emitted exactly once.
C23_SendMatrix ==
    scriptOp.op = "sendMatrixToCoordinator" =>
        /\ \A w \in Workers :
              opResult[w].done =>
                 /\ opResult[w].thrown = ""
                 /\ opResult[w].posted = IF w = 0 THEN 1 ELSE 0
        /\ emitted["tA"] <= 1
        /\ (0 \in Workers /\ opResult[0].done /\ toCoord[0] = <<>>) =>
              /\ emitted["tA"] = 1
              /\ objectBuffer = MatrixBuffer(scriptOp.A)

\* C24: for Matrix.wkDotMatrix every worker ships its columns of A.B as a
\* transposed partition with its column offset, and the Matrix in the buffer
\* at the close of the round is the dense product A.B, of shape
\* A.nrows x B.ncols, in every arrival order.
C24_DotMatrixGather ==
    LET
        \* every worker has made its call and every message has been handled
        over == \A w \in Workers :
                   opResult[w].done /\ toWorker[w] = <<>> /\ toCoord[w] = <<>>
        \* the dense product A.B
        AB == [i \in 1..nrowsOf(scriptOp.A) |->
                 [j \in 1..ncolsOf(scriptOp.B) |->
                     SeqSum([k \in 1..ncolsOf(scriptOp.A) |->
                               scriptOp.A[i][k] * scriptOp.B[k][j]])]]
    IN
        scriptOp.op = "wkDotMatrix" =>
            /\ \A w \in Workers :
                  opResult[w].done =>
                     /\ opResult[w].thrown = ""
                     /\ opResult[w].posted = 1
            /\ \A w \in Workers : \A k \in 1..Len(toCoord[w]) :
                  LET m == toCoord[w][k]
                  IN  m.handle = "_gatherMatrixColumns" =>
                         /\ m.offset = loadBalance(ncolsOf(scriptOp.B), nWorkers, w).ifrom
                         /\ m.rows = [c \in 1..m.nrowsPart |->
                                        [i \in 1..nrowsOf(scriptOp.A) |->
                                            AB[i][m.offset + c]]]
            /\ emitted["tA"] = (IF over THEN 1 ELSE 0)
            /\ over =>
                  objectBuffer = MatrixBuffer(AB)

\* C25: for BatchOperation.wkMatrixMatrixPlus run on all N workers the Matrix
\* gathered is alpha * A.B + beta * C entry for entry (alpha * A.B when beta
\* and C are not both passed), for every compatible shape, square or not.
C25_MatrixMatrixPlus ==
    LET
        \* every worker has made its call and every message has been handled
        over == \A w \in Workers :
                   opResult[w].done /\ toWorker[w] = <<>> /\ toCoord[w] = <<>>
        \* the dense product A.B
        AB == [i \in 1..nrowsOf(scriptOp.A) |->
                 [j \in 1..ncolsOf(scriptOp.B) |->
                     SeqSum([k \in 1..ncolsOf(scriptOp.A) |->
                               scriptOp.A[i][k] * scriptOp.B[k][j]])]]
    IN
        scriptOp.op = "wkMatrixMatrixPlus" =>
            /\ emitted["tA"] = (IF over THEN 1 ELSE 0)
            /\ over =>
                  objectBuffer =
                     MatrixBuffer(
                        [i \in 1..nrowsOf(scriptOp.A) |->
                            [j \in 1..ncolsOf(scriptOp.B) |->
                                scriptOp.alpha * AB[i][j]
                                + (IF scriptOp.beta # 0 /\ scriptOp.C # NotPassed
                                   THEN scriptOp.beta * scriptOp.C[i][j] ELSE 0)]])

\* C26: when wkMatrixMatrixPlus is over, the caller's B has the shape and the
\* entries it had before the call, for every B, square or not, and the call
\* has ended by sending its gather message.
C26_RightOperandRestored ==
    scriptOp.op = "wkMatrixMatrixPlus" =>
        \A w \in Workers :
            opResult[w].done =>
               /\ opResult[w].B = scriptOp.B
               /\ opResult[w].thrown = ""
               /\ opResult[w].posted = 1

\* C27: for BatchOperation.wkMatrixVectorPlus run on all N workers the Vector
\* gathered has length A.nrows and is alpha * A.x + beta * y element for
\* element (alpha * A.x when beta and y are not both passed).
C27_MatrixVectorPlus ==
    LET
        \* every worker has made its call and every message has been handled
        over == \A w \in Workers :
                   opResult[w].done /\ toWorker[w] = <<>> /\ toCoord[w] = <<>>
        \* the dense product A.x
        Ax == [i \in 1..nrowsOf(scriptOp.A) |->
                 SeqSum([k \in 1..ncolsOf(scriptOp.A) |-> scriptOp.A[i][k] * scriptOp.x[k]])]
    IN
        scriptOp.op = "wkMatrixVectorPlus" =>
            /\ emitted["tA"] = (IF over THEN 1 ELSE 0)
            /\ over =>
                  objectBuffer =
                     VectorBuffer(
                        [i \in 1..nrowsOf(scriptOp.A) |->
                            scriptOp.alpha * Ax[i]
                            + (IF scriptOp.beta # 0 /\ scriptOp.y # NotPassed
                               THEN scriptOp.beta * scriptOp.y[i] ELSE 0)])

\* C28: for wkVectorLinearCombination / wkMatrixLinearCombination over k
\* operands of one shape, every worker sends exactly one gather message per
\* call, and the result in the buffer at the close of the round is the sum of
\* c_i * X_i element for element.
C28_LinearCombination ==
    LET
        \* every worker has made its call and every message has been handled
        over == \A w \in Workers :
                   opResult[w].done /\ toWorker[w] = <<>> /\ toCoord[w] = <<>>
        \* the sums of c_a * X_a, of Vectors and of Matrices
        sumV == [i \in 1..Len(scriptOp.vectors[1]) |->
                   SeqSum([a \in 1..Len(scriptOp.vectors) |->
                             scriptOp.coefficients[a] * scriptOp.vectors[a][i]])]
        sumM == [i \in 1..nrowsOf(scriptOp.matrices[1]) |->
                   [j \in 1..ncolsOf(scriptOp.matrices[1]) |->
                       SeqSum([a \in 1..Len(scriptOp.matrices) |->
                                 scriptOp.coefficients[a] * scriptOp.matrices[a][i][j]])]]
    IN
        (scriptOp.op = "wkVectorLinearCombination" \/ scriptOp.op = "wkMatrixLinearCombination") =>
            /\ \A w \in Workers : opResult[w].done => opResult[w].posted = 1
            /\ emitted["tA"] = (IF over THEN 1 ELSE 0)
            /\ over =>
                  objectBuffer =
                     IF scriptOp.op = "wkVectorLinearCombination"
                     THEN VectorBuffer(sumV)
                     ELSE MatrixBuffer(sumM)

\* ------------------------------------------------------------ pool teardown

\* C29: disconnect() disconnects every worker of the pool exactly once and
\* leaves nWorkers = 0 and an empty pool; a broadcastMessage issued after
\* disconnect sends no message, one issued before it sends exactly one
\* _broadcastMessage to each worker of the pool.
C29_Teardown ==
    LET \* the calls of disconnect, and the messages broadcast before the first
        ds == {i \in 1..Len(poolCalls) : poolCalls[i].op = "disconnect"}
        last == IF ds = {} THEN Len(poolCalls)
                ELSE (CHOOSE i \in ds : \A j \in ds : i <= j) - 1
        before == {i \in 1..last : poolCalls[i].op = "broadcastMessage"}
    IN
    /\ ds # {} =>
          /\ thisNWorkers = 0
          /\ thisWorkerPool = <<>>
          /\ \A w \in DOMAIN disconnected : disconnected[w] = 1
    /\ \A w \in DOMAIN inbox :
          /\ Len(inbox[w]) = 1 + Cardinality(before)
          /\ \A k \in 2..Len(inbox[w]) :
                \E i \in before :
                   /\ Cardinality({j \in before : j <= i}) = k - 1
                   /\ inbox[w][k] = PoolMessage("_broadcastMessage", Undefined, FALSE,
                                                poolCalls[i].message)

\* a pool of two or more workers has been sent a broadcast, disconnected, and
\* broadcast to again
C29_Witness ==
    /\ Len(poolCalls) = 3
    /\ poolCalls[1].op = "broadcastMessage"
    /\ poolCalls[2].op = "disconnect"
    /\ poolCalls[3].op = "broadcastMessage"
    /\ \E w \in DOMAIN disconnected : w >= 1

\* C30: between two runs of the Coordinator's message handler the report
\* counter is in 0..N-1, and the handling of a report takes it from k to k + 1,
\* or from N - 1 back to 0 (the round closes inside the handler).  The reports
\* are the messages whose handlers count: every handle of the switch but the
\* two sends of a full Vector or Matrix.
C30_CounterCycle ==
    [][\A w \in Workers :
          (/\ toCoord[w] # <<>>
           /\ toCoord'[w] = Tail(toCoord[w])
           /\ Head(toCoord[w]).handle \in
                 CoordinatorHandles \ {"_vectorSendToCoordinator",
                                       "_matrixSendToCoordinator"}) =>
              /\ nWorkersReported \in 0..(nWorkers - 1)
              /\ nWorkersReported' = (nWorkersReported + 1) % nWorkers]_vars

\* ------------------------------------------------- extents, order and rounds

\* C31: in a vector gather the total length declared in the message is the
\* extent that loadBalance partitioned (A.nrows for Matrix.wkDotVector and
\* wkMatrixVectorPlus, A.ncols for Vector.wkDotMatrix, the Vectors' length for
\* a linear combination), and the worker's slice is its range of that extent,
\* so it lies inside the accumulator.
C31_DeclaredLength ==
    LET extent == CASE scriptOp.op = "wkDotVector" -> nrowsOf(scriptOp.A)
                    [] scriptOp.op = "wkMatrixVectorPlus" -> nrowsOf(scriptOp.A)
                    [] scriptOp.op = "Vector.wkDotMatrix" -> ncolsOf(scriptOp.A)
                    [] scriptOp.op = "wkVectorLinearCombination" ->
                          Len(scriptOp.vectors[1])
                    [] OTHER -> 0
    IN  \A w \in Workers : \A k \in 1..Len(toCoord[w]) :
            LET m == toCoord[w][k]
                lb == loadBalance(extent, nWorkers, w)
            IN  m.handle = "_gatherVector" =>
                   /\ m.len = extent
                   /\ m.offset = lb.ifrom
                   /\ Len(m.vectorPart) = lb.ito - lb.ifrom
                   /\ m.offset + Len(m.vectorPart) <= m.len

C34_TwoTriggers ==
    \A t \in Tags :
        /\ \A w \in Workers : closes[t] <= arrived[w][t]
        /\ (/\ Len(callerCalls) = 2
            /\ \A k \in 1..2 : callerCalls[k].op = "trigger" /\ callerCalls[k].tag = t
            /\ ~rbOf[t]
            /\ \A w \in Workers :
                  /\ regs[w] = scriptOn
                  /\ triggers[w][t] = IssuingHandler
                  /\ toWorker[w] = <<>>
                  /\ toCoord[w] = <<>>)
              => /\ closes[t] = 2
                 /\ emitted[t] = 2
                 /\ \A w \in Workers : arrived[w][t] = 2

\* ------------------------------------------------- callbacks and handlers

C38_AbortKeepsB ==
    \A w \in Workers :
       (/\ opResult[w].done
        /\ scriptOp.op = "wkMatrixMatrixPlus"
        /\ scriptOp.beta # 0
        /\ scriptOp.C # NotPassed
        /\ ~(/\ nrowsOf(scriptOp.A) = nrowsOf(scriptOp.C)
             /\ ncolsOf(scriptOp.B) = ncolsOf(scriptOp.C)))
          => /\ opResult[w].thrown = "Error"
             /\ opResult[w].posted = 0
             /\ opResult[w].B = scriptOp.B

\* C39: whatever global.unrollLoops is, the partial result in a report a worker
\* has posted is the one the plain loop computes: a _vectorSum carries the sum
\* and a _vectorProduct the product of the elements of vec in the worker's
\* loadBalance range, a _gatherVector carries these elements in order.
C39_UnrollSame ==
    \A w \in Workers : \A i \in 1..Len(toCoord[w]) :
       LET m == toCoord[w][i]
           lb == loadBalance(Len(vec), wkNWorkers[w], myWorkerId[w])
           part == [k \in 1..(lb.ito - lb.ifrom) |-> fn(vec[lb.ifrom + k])]
       IN  /\ m.handle = "_vectorSum" =>
                /\ m.tot = SeqSum(part)
                /\ m.tot = wkSumTot(vec, wkNWorkers[w], myWorkerId[w], ~wkUnrollLoops[w])
           /\ m.handle = "_vectorProduct" =>
                /\ m.tot = SeqProduct(part)
                /\ m.tot = wkProductTot(vec, wkNWorkers[w], myWorkerId[w], ~wkUnrollLoops[w])
           /\ m.handle = "_gatherVector" =>
                /\ m.vectorPart = part
                /\ m.vectorPart = wkApplyPart(vec, wkNWorkers[w], myWorkerId[w],
                                              ~wkUnrollLoops[w])

====
